---- MODULE Spec2Model ----
(***************************************************************************)
(* Model of surveiller (deadman-go): the state store                       *)
(* (internal/state/store.go), the scheduler                                *)
(* (internal/scheduler/scheduler.go) and the reload sequence of main.go.   *)
(*                                                                         *)
(* Durations are integers (Go's time.Duration counts nanoseconds), so the  *)
(* divisions of the classification are integer divisions, as in the code.  *)
(* time.Now() is a logical clock, now, that advances with every recorded   *)
(* probe result.                                                           *)
(***************************************************************************)
EXTENDS Integers, Sequences, FiniteSets, TLC

VARIABLES
    store,      \* StoreImpl: [targets, historySize, downThreshold, timeout]
    now,        \* the reading of time.Now() at the latest UpdateResult
    lastProbe,  \* history variable: per store entry, the kind of the result
                \* recorded last since the entry was created
    sched,      \* scheduler.Impl: [cfg, targets, semaphore, targetJobs,
                \* cancel, runCtx]; semaphore is an index into chans, cancel
                \* and runCtx the number of the Run call (0: nil)
    chans,      \* the semaphore channels made so far: [cap, len] each
    loops,      \* the probe-loop goroutines started so far
    ctxDone,    \* the Run calls whose context has been cancelled
    runs,       \* the calls of Run made so far
    reload,     \* the reload manager (main.go's reload closure)
    hist,       \* history variable: [prevMax, returned, settling]
    shared,     \* the store as Go memory: backing arrays, *TargetStatus
                \* objects, the RWMutex, the calls in progress, the copies
                \* returned to readers
    fallback,   \* a call of FallbackPinger.Ping
    exposition, \* a target written by writePerTarget and read back
    reloadCh,   \* the reload request channel: [cap, len]
    entry,      \* the entry point: root context, metrics server, the
                \* goroutines main waits for, the reload requests made
    icmp        \* the ICMP engine: its sequence counter, the calls of Ping
                \* and the echo replies that have reached the host

storeVars == <<store, now, lastProbe>>

schedVars == <<sched, chans, loops, ctxDone, runs, reload, hist>>

mainVars == <<reloadCh, entry>>

libVars == <<shared, fallback, exposition, mainVars, icmp>>

vars == <<store, now, lastProbe, sched, chans, loops, ctxDone, runs, reload, hist,
          shared, fallback, exposition, reloadCh, entry, icmp>>

(***************************************************************************)
(* Program constants (internal/state/store.go)                             *)
(***************************************************************************)
defaultHistorySize == 100
defaultDownThreshold == 3
thresholdDataPointCount == 10

StatusUnknown == "UNKNOWN"
StatusOK == "OK"
StatusWarn == "WARN"
StatusDown == "DOWN"

(***************************************************************************)
(* Bounds of the model                                                     *)
(***************************************************************************)
\* the number of probe results recorded after the initial state, for the
\* store alone
MaxTime == 4
\* the number of probe results the running system records
MaxProbes == 2
\* the number of reloads
MaxReloads == 1
\* the number of calls of Run
MaxRuns == 1
\* the number of calls of Run where no reload is served
MaxRunCalls == 2
MaxPings == 2
MaxLabelLen == 2
MaxCopies == 2
MaxClientWrites == 1
\* the reload requests of one source (the signal, the key)
MaxRequests == 2

(***************************************************************************)
(* Input domains                                                           *)
(***************************************************************************)
Names == {"a", "b"}
RTTs == {1, 3}
Timeouts == {10, 12}

\* ping.Result: a success carries its RTT, a failure an error
Results ==
    {[Success |-> FALSE, RTT |-> 0]} \cup {[Success |-> TRUE, RTT |-> r] : r \in RTTs}

\* config.TargetConfig
Tgt(n, a, g) == [Name |-> n, Address |-> a, Group |-> g]

\* The target lists a configuration file may hold; the parser accepts the
\* same name twice (parser.go appends every target line).
TargetLists ==
    { <<>>,
      <<Tgt("a", "a1", "")>>,
      <<Tgt("a", "a1", ""), Tgt("b", "b1", "g")>>,
      <<Tgt("a", "a2", "g"), Tgt("b", "b1", "g")>>,
      <<Tgt("b", "b1", ""), Tgt("b", "b2", "g")>> }

\* config.GlobalOptions, the fields the scheduler and the store read
Global(t, m) == [Timeout |-> t, MaxConcurrency |-> m]

\* The configurations LoadConfig may return
Configs ==
    { [Global |-> Global(12, 2), Targets |-> <<Tgt("a", "a1", ""), Tgt("b", "b1", "g")>>],
      [Global |-> Global(10, 1), Targets |-> <<Tgt("a", "a1", "g")>>],
      [Global |-> Global(12, 1), Targets |-> <<Tgt("a", "a2", "g"), Tgt("b", "b1", "g")>>],
      [Global |-> Global(10, 0), Targets |-> <<Tgt("b", "b1", ""), Tgt("b", "b2", "g")>>] }

NamesOf(list) == {list[i].Name : i \in 1..Len(list)}

\* the last record of the list that carries the name: the one a Go loop
\* "for _, tgt := range targets { m[tgt.Name] = ... }" leaves in the map
LastOf(list, n) ==
    list[CHOOSE i \in 1..Len(list) :
            /\ list[i].Name = n
            /\ \A j \in (i+1)..Len(list) : list[j].Name # n]

(***************************************************************************)
(* The state store                                                         *)
(***************************************************************************)
\* &TargetStatus{Name, Address, Group, Status: StatusUnknown}: Go's zero
\* values for every other field
NewTargetStatus(addr, group) ==
    [ Address |-> addr, Group |-> group,
      LastRTT |-> 0, LastSuccessAt |-> 0, LastFailureAt |-> 0,
      ConsecutiveOK |-> 0, ConsecutiveNG |-> 0,
      TotalSuccess |-> 0, TotalFailure |-> 0,
      Status |-> StatusUnknown, History |-> <<>> ]

\* mutant: the history grows without a cap
appendHistory_Unbounded(history, point, historySize) == Append(history, point)

\* mutant: a full history makes room by dropping its newest sample
appendHistory_DropsNewest(history, point, historySize) ==
    IF historySize <= 0 THEN history
    ELSE IF Len(history) < historySize THEN Append(history, point)
    ELSE Append(SubSeq(history, 1, Len(history) - 1), point)

appendHistory(history, point, historySize) ==
    IF historySize <= 0 THEN history
    ELSE IF Len(history) < historySize THEN Append(history, point)
    ELSE Append(Tail(history), point)

RECURSIVE SumRTT(_, _, _)
SumRTT(history, i, last) ==
    IF i > last THEN 0 ELSE history[i].RTT + SumRTT(history, i + 1, last)

\* mutant: the mean of the last 2 * count samples, not of the last count
calculateRecentAvgRTT_DoubleWindow(history, count) ==
    IF Len(history) = 0 THEN 0
    ELSE LET start == IF Len(history) - 2 * count < 0 THEN 0
                      ELSE Len(history) - 2 * count
         IN  SumRTT(history, start + 1, Len(history)) \div (Len(history) - start)

calculateRecentAvgRTT(history, count) ==
    IF Len(history) = 0 THEN 0
    ELSE LET start == IF Len(history) - count < 0 THEN 0 ELSE Len(history) - count
             sum == SumRTT(history, start + 1, Len(history))
             usedCount == Len(history) - start
         IN  IF usedCount = 0 THEN 0 ELSE sum \div usedCount

\* mutant: the decision is made with the timeout 12, whatever the store's
ClassifySuccess_FixedTimeout(history, rtt, timeout) ==
    LET avg == calculateRecentAvgRTT(history, thresholdDataPointCount)
        avgRTT == IF avg <= 0 THEN rtt ELSE avg
    IN  IF avgRTT <= 12 \div 4 THEN StatusOK ELSE StatusWarn

\* the OK/WARN decision of a success (store.go 61-80)
ClassifySuccess(history, rtt, timeout) ==
    LET avg == calculateRecentAvgRTT(history, thresholdDataPointCount)
        avgRTT == IF avg <= 0 THEN rtt ELSE avg
        okThreshold == timeout \div 4
    IN  IF avgRTT <= okThreshold THEN StatusOK ELSE StatusWarn

\* mutant: DOWN only above the threshold
ClassifyFailure_Above(consecutiveNG, downThreshold) ==
    IF consecutiveNG > downThreshold THEN StatusDown ELSE StatusWarn

\* the DOWN/WARN decision of a failure (store.go 88-92)
ClassifyFailure(consecutiveNG, downThreshold) ==
    IF consecutiveNG >= downThreshold THEN StatusDown ELSE StatusWarn

\* the entry UpdateResult works on: the existing one, or a new one
EntryFor(s, name) ==
    IF name \in DOMAIN s.targets THEN s.targets[name]
    ELSE NewTargetStatus("", "")

\* mutant: a success forgets the failures counted so far
SuccessUpdate_ForgetsFailures(s, target, result, t) ==
    LET history == appendHistory(target.History, [Time |-> t, RTT |-> result.RTT],
                                 s.historySize)
    IN  [target EXCEPT !.LastRTT = result.RTT,
                       !.LastSuccessAt = t,
                       !.ConsecutiveOK = @ + 1,
                       !.ConsecutiveNG = 0,
                       !.TotalSuccess = @ + 1,
                       !.TotalFailure = 0,
                       !.History = history,
                       !.Status = ClassifySuccess(history, result.RTT, s.timeout)]

SuccessUpdate(s, target, result, t) ==
    LET history == appendHistory(target.History, [Time |-> t, RTT |-> result.RTT],
                                 s.historySize)
    IN  [target EXCEPT !.LastRTT = result.RTT,
                       !.LastSuccessAt = t,
                       !.ConsecutiveOK = @ + 1,
                       !.ConsecutiveNG = 0,
                       !.TotalSuccess = @ + 1,
                       !.History = history,
                       !.Status = ClassifySuccess(history, result.RTT, s.timeout)]

\* mutant: a failure leaves ConsecutiveOK as it is
FailureUpdate_KeepsOK(s, target, t) ==
    [target EXCEPT !.LastFailureAt = t,
                   !.ConsecutiveNG = @ + 1,
                   !.TotalFailure = @ + 1,
                   !.Status = IF target.ConsecutiveNG + 1 >= s.downThreshold
                              THEN StatusDown ELSE StatusWarn]

\* mutant: a failure clears the last round-trip time
FailureUpdate_ClearsRTT(s, target, t) ==
    [target EXCEPT !.LastFailureAt = t,
                   !.LastRTT = 0,
                   !.ConsecutiveNG = @ + 1,
                   !.ConsecutiveOK = 0,
                   !.TotalFailure = @ + 1,
                   !.Status = ClassifyFailure(target.ConsecutiveNG + 1, s.downThreshold)]

FailureUpdate(s, target, t) ==
    [target EXCEPT !.LastFailureAt = t,
                   !.ConsecutiveNG = @ + 1,
                   !.ConsecutiveOK = 0,
                   !.TotalFailure = @ + 1,
                   !.Status = ClassifyFailure(target.ConsecutiveNG + 1, s.downThreshold)]

\* the store after s.UpdateResult(name, result) at time t
UpdateResult(s, name, result, t) ==
    LET target == EntryFor(s, name)
        updated == IF result.Success THEN SuccessUpdate(s, target, result, t)
                   ELSE FailureUpdate(s, target, t)
    IN  [s EXCEPT !.targets =
            [n \in DOMAIN s.targets \cup {name} |->
                IF n = name THEN updated ELSE s.targets[n]]]

\* mutant: every name of the new list gets a new entry
MergedEntry_Fresh(s, tgt) == NewTargetStatus(tgt.Address, tgt.Group)

\* mutant: a kept entry is unclassified again
MergedEntry_Unclassified(s, tgt) ==
    IF tgt.Name \in DOMAIN s.targets
    THEN [s.targets[tgt.Name] EXCEPT !.Address = tgt.Address, !.Group = tgt.Group,
                                     !.Status = StatusUnknown]
    ELSE NewTargetStatus(tgt.Address, tgt.Group)

\* the entry UpdateTargets keeps for a name of the new list
MergedEntry(s, tgt) ==
    IF tgt.Name \in DOMAIN s.targets
    THEN [s.targets[tgt.Name] EXCEPT !.Address = tgt.Address, !.Group = tgt.Group]
    ELSE NewTargetStatus(tgt.Address, tgt.Group)

\* mutant: names absent from the new list stay in the store
UpdateTargets_KeepsRemoved(s, targets) ==
    [s EXCEPT !.targets =
        [n \in NamesOf(targets) \cup DOMAIN s.targets |->
            IF n \in NamesOf(targets)
            THEN (IF n \in DOMAIN s.targets
                  THEN [s.targets[n] EXCEPT !.Address = LastOf(targets, n).Address,
                                            !.Group = LastOf(targets, n).Group]
                  ELSE NewTargetStatus(LastOf(targets, n).Address,
                                       LastOf(targets, n).Group))
            ELSE s.targets[n]]]

\* the store after s.UpdateTargets(targets)
UpdateTargets(s, targets) ==
    [s EXCEPT !.targets =
        [n \in NamesOf(targets) |-> MergedEntry(s, LastOf(targets, n))]]

\* the store after s.UpdateTimeout(timeout)
UpdateTimeout(s, timeout) == [s EXCEPT !.timeout = timeout]

NewStore(targets, timeout) ==
    UpdateTargets([ targets |-> << >>, historySize |-> defaultHistorySize,
                    downThreshold |-> defaultDownThreshold, timeout |-> timeout ],
                  targets)

\* the history variable after a result for name has been recorded
ProbeRecorded(lp, name, result) ==
    [n \in DOMAIN lp \cup {name} |->
        IF n = name THEN (IF result.Success THEN "ok" ELSE "fail") ELSE lp[n]]

\* the history variable after the store's names became those of the list
TargetsMerged(lp, targets) ==
    [n \in NamesOf(targets) |-> IF n \in DOMAIN lp THEN lp[n] ELSE "none"]

(***************************************************************************)
(* The fallback pinger (internal/ping: FallbackPinger)                     *)
(*                                                                         *)
(* An error value is [Is, Msg]: the sentinel errors errors.Is finds in its *)
(* chain, and the words of err.Error().                                    *)
(***************************************************************************)
\* the value nil of type error
NilError == [Is |-> {"nil"}, Msg |-> << >>]

Err(is, msg) == [Is |-> is, Msg |-> msg]

\* the errors a Pinger returns: os.ErrPermission, syscall.EPERM, errors that
\* only read like them, a timeout, a network error
PingErrors ==
    { Err({"os.ErrPermission"}, <<"permission", "denied">>),
      Err({"syscall.EPERM", "os.ErrPermission"}, <<"operation", "not", "permitted">>),
      Err({}, <<"socket:", "Operation", "not", "permitted">>),
      Err({}, <<"icmp:", "Permission", "Denied">>),
      Err({"os.ErrPermission"}, <<"access", "refused">>),
      Err({"context.DeadlineExceeded"}, <<"ping", "timeout:", "i/o", "timeout">>),
      Err({}, <<"network", "down">>),
      Err({}, <<"not", "permitted", "operation">>) }

\* ping.Result values
PingResult(success, rtt, err) == [Success |-> success, RTT |-> rtt, Error |-> err]

PingerResults ==
    {PingResult(TRUE, r, NilError) : r \in RTTs}
        \cup {PingResult(FALSE, 0, e) : e \in PingErrors \cup {NilError}}
        \cup {PingResult(TRUE, 1, Err({"os.ErrPermission"}, <<"permission", "denied">>))}

\* strings.ToLower on one word
LowerWord(w) ==
    CASE w = "Operation" -> "operation"
      [] w = "Permission" -> "permission"
      [] w = "Denied" -> "denied"
      [] OTHER -> w

ToLower(msg) == [i \in 1..Len(msg) |-> LowerWord(msg[i])]

\* strings.Contains
Contains(msg, sub) ==
    \E i \in 0..(Len(msg) - Len(sub)) : SubSeq(msg, i + 1, i + Len(sub)) = sub

isPermissionError(err) ==
    IF err = NilError THEN FALSE
    ELSE IF "os.ErrPermission" \in err.Is \/ "syscall.EPERM" \in err.Is THEN TRUE
    ELSE LET msg == ToLower(err.Msg)
         IN  \/ Contains(msg, <<"operation", "not", "permitted">>)
             \/ Contains(msg, <<"permission", "denied">>)

\* mutant: any failure of the primary goes to the secondary
UsesPrimary_OnSuccessOnly(result) == result.Success

\* "result.Success || !isPermissionError(result.Error)": Ping returns the
\* primary's result
UsesPrimary(result) == result.Success \/ ~isPermissionError(result.Error)

NoPingResult == PingResult(FALSE, 0, NilError)

FallbackIdle ==
    [ pc |-> "idle", calls |-> 0, primary |-> 0, secondary |-> 0,
      result |-> NoPingResult, fromSecondary |-> NoPingResult,
      returned |-> NoPingResult ]

\* FallbackPinger.Ping is called
FallbackPing ==
    /\ fallback.pc \in {"idle", "returned"}
    /\ fallback.calls < MaxPings
    /\ fallback' = [FallbackIdle EXCEPT !.pc = "primary", !.calls = fallback.calls + 1]
    /\ UNCHANGED <<storeVars, schedVars, shared, exposition, mainVars, icmp>>

\* p.primary.Ping returns result; Ping returns it, or goes on to the secondary
FallbackPrimaryReturns(result) ==
    /\ fallback.pc = "primary"
    /\ fallback' = IF UsesPrimary(result)
                   THEN [fallback EXCEPT !.pc = "returned", !.primary = @ + 1,
                                         !.result = result, !.returned = result]
                   ELSE [fallback EXCEPT !.pc = "secondary", !.primary = @ + 1,
                                         !.result = result]
    /\ UNCHANGED <<storeVars, schedVars, shared, exposition, mainVars, icmp>>

\* return p.secondary.Ping(ctx, addr, timeout)
FallbackSecondaryReturns(result) ==
    /\ fallback.pc = "secondary"
    /\ fallback' = [fallback EXCEPT !.pc = "returned", !.secondary = @ + 1,
                                    !.fromSecondary = result, !.returned = result]
    /\ UNCHANGED <<storeVars, schedVars, shared, exposition, mainVars, icmp>>

InitFallback ==
    /\ fallback = FallbackIdle
    /\ shared = << >>
    /\ exposition = << >>
    /\ store = NewStore(<< >>, 0)
    /\ now = 0
    /\ lastProbe = << >>
    /\ sched = << >> /\ chans = << >> /\ loops = << >> /\ ctxDone = {}
    /\ runs = << >> /\ reload = << >> /\ hist = << >>
    /\ reloadCh = << >> /\ entry = << >> /\ icmp = << >>

NextFallback ==
    \/ FallbackPing
    \/ \E r \in PingerResults : FallbackPrimaryReturns(r)
    \/ \E r \in PingerResults : FallbackSecondaryReturns(r)

SpecFallback == InitFallback /\ [][NextFallback]_vars

(***************************************************************************)
(* Per-target metrics (internal/metrics/metrics.go)                        *)
(*                                                                         *)
(* A string is the sequence of its characters; the fixed pieces of the     *)
(* format string ("target=", ",address=", ",group=") are one symbol each.  *)
(***************************************************************************)
Backslash == "\\"

Quote == "\""

LabelChars == {"a", Backslash, Quote}

\* the strings of at most n characters
RECURSIVE StringsUpTo(_)
StringsUpTo(n) ==
    IF n = 0 THEN {<< >>}
    ELSE StringsUpTo(n - 1)
            \cup {Append(v, c) : v \in {w \in StringsUpTo(n - 1) : Len(w) = n - 1},
                                 c \in LabelChars}

LabelValues == StringsUpTo(MaxLabelLen)

\* strings.ReplaceAll(value, old, new) for a one-character old
RECURSIVE ReplaceAll(_, _, _)
ReplaceAll(value, old, new) ==
    IF value = << >> THEN << >>
    ELSE (IF Head(value) = old THEN new ELSE <<Head(value)>>)
            \o ReplaceAll(Tail(value), old, new)

escapeLabel(value) ==
    ReplaceAll(ReplaceAll(value, Backslash, <<Backslash, Backslash>>),
               Quote, <<Backslash, Quote>>)

\* the verb %q of fmt.Sprintf on a string of printable characters:
\* strconv.Quote, a double-quoted Go string literal
Quoted(value) ==
    <<Quote>>
        \o ReplaceAll(ReplaceAll(value, Backslash, <<Backslash, Backslash>>),
                      Quote, <<Backslash, Quote>>)
        \o <<Quote>>

\* the labels writePerTarget writes between the braces of a sample line
Labels(target) ==
    <<"target=">> \o Quoted(escapeLabel(target.Name))
        \o <<",address=">> \o Quoted(escapeLabel(target.Address))
        \o <<",group=">> \o Quoted(escapeLabel(target.Group))

\* a parser of the exposition format reads a label value from position i
\* (after the opening quote) up to the closing quote, a backslash escaping
\* the character after it; the result is the value and the position after
\* the closing quote
RECURSIVE ReadValue(_, _, _)
ReadValue(line, i, acc) ==
    IF i > Len(line) THEN [value |-> acc, next |-> i]
    ELSE IF line[i] = Quote THEN [value |-> acc, next |-> i + 1]
    ELSE IF line[i] = Backslash /\ i < Len(line)
         THEN ReadValue(line, i + 2, Append(acc, line[i + 1]))
    ELSE ReadValue(line, i + 1, Append(acc, line[i]))

\* the label values a parser reads from the labels of a line
ReadLabels(line) ==
    LET name == ReadValue(line, 3, << >>)
        address == ReadValue(line, name.next + 2, << >>)
        group == ReadValue(line, address.next + 2, << >>)
    IN  [Name |-> name.value, Address |-> address.value, Group |-> group.value]

\* writePerTarget writes the sample line of the target
WritePerTarget ==
    /\ exposition.pc = "snapshot"
    /\ exposition' = [exposition EXCEPT !.pc = "written",
                                        !.line = Labels(exposition.target)]
    /\ UNCHANGED <<storeVars, schedVars, shared, fallback, mainVars, icmp>>

\* a scraper parses the line
Scrape ==
    /\ exposition.pc = "written"
    /\ exposition' = [exposition EXCEPT !.pc = "read",
                                        !.read = ReadLabels(exposition.line)]
    /\ UNCHANGED <<storeVars, schedVars, shared, fallback, mainVars, icmp>>

InitMetrics ==
    /\ \E n \in LabelValues, a \in LabelValues, g \in LabelValues :
          exposition = [ pc |-> "snapshot",
                         target |-> [Name |-> n, Address |-> a, Group |-> g],
                         line |-> << >>,
                         read |-> [Name |-> << >>, Address |-> << >>, Group |-> << >>] ]
    /\ fallback = FallbackIdle
    /\ shared = << >>
    /\ store = NewStore(<< >>, 0)
    /\ now = 0
    /\ lastProbe = << >>
    /\ sched = << >> /\ chans = << >> /\ loops = << >> /\ ctxDone = {}
    /\ runs = << >> /\ reload = << >> /\ hist = << >>
    /\ reloadCh = << >> /\ entry = << >> /\ icmp = << >>

NextMetrics == WritePerTarget \/ Scrape

SpecMetrics == InitMetrics /\ [][NextMetrics]_vars

(***************************************************************************)
(* The parts that are exercised on their own                               *)
(***************************************************************************)
\* their variables while another part is exercised
LibInit ==
    /\ shared = << >>
    /\ fallback = << >>
    /\ exposition = << >>
    /\ reloadCh = << >>
    /\ entry = << >>
    /\ icmp = << >>

(***************************************************************************)
(* The scheduler                                                           *)
(***************************************************************************)
\* what pingOnce returns in the running system: a failure, or a success
\* whose RTT lies between the OK thresholds of the two timeouts
PingResults == {[Success |-> FALSE, RTT |-> 0], [Success |-> TRUE, RTT |-> 3]}

maxConcurrency(value) == IF value <= 0 THEN 1 ELSE value

\* make(chan struct{}, n)
MakeChan(n) == [cap |-> n, len |-> 0]

\* the map "for _, tgt := range targets { m[tgt.Name] = tgt }" builds
TargetMap(targets) == [n \in NamesOf(targets) |-> LastOf(targets, n)]

NewScheduler(global, targets) ==
    [ cfg |-> global, targets |-> TargetMap(targets), semaphore |-> 1,
      targetJobs |-> << >>, cancel |-> 0, runCtx |-> 0 ]

\* the goroutine startTarget launches: runTargetLoop(targetCtx, target),
\* targetCtx a child of the Run call's context ctx
\* timeout is the loop's local variable of that name: 0 while the iteration
\* has not read it or has handed it to pingOnce
NewLoop(ctx, target) ==
    [ name |-> target.Name, address |-> target.Address, ctx |-> ctx,
      cancelled |-> FALSE, pc |-> "timing", sem |-> 0, timeout |-> 0 ]

\* a loop that has returned
Exited(loop) == [loop EXCEPT !.pc = "done", !.sem = 0, !.timeout = 0]

LoopIds == 1..Len(loops)

\* <-ctx.Done() of a loop is ready: its own cancel was called, or that of
\* the context of its Run call
CtxDone(l) == loops[l].cancelled \/ loops[l].ctx \in ctxDone

\* the probes between acquire and release
InFlight == {l \in LoopIds : loops[l].pc = "ping"}

\* the loops that have not returned (the WaitGroup's counter)
Running == {l \in LoopIds : loops[l].pc # "done"}

\* startTarget(ctx, target): the scheduler and the loops after it
startTargetSched(s, ls, ctx, target) ==
    IF target.Name \in DOMAIN s.targetJobs THEN s
    ELSE [s EXCEPT !.targetJobs =
            [n \in DOMAIN s.targetJobs \cup {target.Name} |->
                IF n = target.Name THEN Len(ls) + 1 ELSE s.targetJobs[n]]]

startTargetLoops(s, ls, ctx, target) ==
    IF target.Name \in DOMAIN s.targetJobs THEN ls
    ELSE Append(ls, NewLoop(ctx, target))

startTarget(ctx, target) ==
    /\ sched' = startTargetSched(sched, loops, ctx, target)
    /\ loops' = startTargetLoops(sched, loops, ctx, target)

(***************************************************************************)
(* Run (scheduler.go 52-78)                                                *)
(***************************************************************************)
\* the calls of Run that were accepted and have not returned
RunIds == 1..Len(runs)

\* Run's first critical section: refuse a second Run, else install the
\* context and copy the targets
\* mutant: Run does not look at s.cancel
RunAccepted_Always(s) == TRUE

\* "if s.cancel != nil { return already running }" does not apply
RunAccepted(s) == s.cancel = 0

RunCallUpTo(max) ==
    /\ Len(runs) < max
    /\ IF ~RunAccepted(sched)
       THEN /\ runs' = Append(runs, [pc |-> "refused", targets |-> {}])
            /\ UNCHANGED sched
       ELSE LET targets == {sched.targets[n] : n \in DOMAIN sched.targets}
            IN  /\ runs' = Append(runs,
                              [pc |-> IF targets = {} THEN "wait" ELSE "start",
                               targets |-> targets])
                /\ sched' = [sched EXCEPT !.cancel = Len(runs) + 1,
                                          !.runCtx = Len(runs) + 1]
    /\ UNCHANGED <<storeVars, chans, loops, ctxDone, reload, hist, libVars>>

RunCall == RunCallUpTo(MaxRuns)

\* one iteration of "for _, tgt := range targets { s.startTarget(runCtx, tgt) }"
RunStartTarget(r, target) ==
    /\ runs[r].pc = "start"
    /\ target \in runs[r].targets
    /\ startTarget(r, target)
    /\ runs' = [runs EXCEPT ![r].targets = @ \ {target},
                            ![r].pc = IF runs[r].targets = {target}
                                      THEN "wait" ELSE "start"]
    /\ UNCHANGED <<storeVars, chans, ctxDone, reload, hist, libVars>>

\* <-runCtx.Done(); s.wg.Wait()
RunWait(r) ==
    /\ runs[r].pc = "wait"
    /\ r \in ctxDone
    /\ Running = {}
    /\ runs' = [runs EXCEPT ![r].pc = "cleanup"]
    /\ UNCHANGED <<storeVars, sched, chans, loops, ctxDone, reload, hist, libVars>>

\* s.cancel = nil; s.runCtx = nil; return runCtx.Err()
RunReturn(r) ==
    /\ runs[r].pc = "cleanup"
    /\ runs' = [runs EXCEPT ![r].pc = "returned"]
    /\ sched' = [sched EXCEPT !.cancel = 0, !.runCtx = 0]
    /\ UNCHANGED <<storeVars, chans, loops, ctxDone, reload, hist, libVars>>

\* Stop (scheduler.go 136-143)
Stop ==
    /\ sched.cancel # 0
    /\ sched.cancel \notin ctxDone
    /\ ctxDone' = ctxDone \cup {sched.cancel}
    /\ UNCHANGED <<storeVars, sched, chans, loops, runs, reload, hist, libVars>>

(***************************************************************************)
(* runTargetLoop (scheduler.go 162-208)                                    *)
(*                                                                         *)
(* A Go select with several ready cases takes any of them, so a loop whose *)
(* context is cancelled may still take the timer case or the send case     *)
(* when that one is ready too.                                             *)
(***************************************************************************)
\* s.currentTiming(): the timeout of s.cfg, read under the read lock
\* together with the interval
currentTiming(s) == s.cfg.Timeout

\* an iteration begins: "interval, timeout := s.currentTiming()"
LoopTiming(l) ==
    /\ loops[l].pc = "timing"
    /\ loops' = [loops EXCEPT ![l].pc = "timer", ![l].timeout = currentTiming(sched)]
    /\ UNCHANGED <<storeVars, sched, chans, ctxDone, runs, reload, hist, libVars>>

\* the timer case of the first select, then currentSemaphore()
LoopTimer(l) ==
    /\ loops[l].pc = "timer"
    /\ loops' = [loops EXCEPT ![l].pc = "acquire", ![l].sem = sched.semaphore]
    /\ UNCHANGED <<storeVars, sched, chans, ctxDone, runs, reload, hist, libVars>>

\* the ctx.Done() case of the first select
LoopTimerCancelled(l) ==
    /\ loops[l].pc = "timer"
    /\ CtxDone(l)
    /\ loops' = [loops EXCEPT ![l] = Exited(@)]
    /\ UNCHANGED <<storeVars, sched, chans, ctxDone, runs, reload, hist, libVars>>

\* history: the probe that loop l starts now is for a name that an
\* UpdateConfig which has returned took out of the targets
StartsLate(l) ==
    /\ hist.returned
    /\ reload.pc \notin {"UpdateConfig", "cancel", "start"}
    /\ loops[l].name \notin DOMAIN sched.targets

\* acquire: the send case "sem <- struct{}{}"; the probe starts
LoopAcquire(l) ==
    /\ loops[l].pc = "acquire"
    /\ chans[loops[l].sem].len < chans[loops[l].sem].cap
    /\ chans' = [chans EXCEPT ![loops[l].sem].len = @ + 1]
    /\ loops' = [loops EXCEPT ![l].pc = "ping", ![l].timeout = 0]
    /\ hist' = [hist EXCEPT !.late = IF StartsLate(l) THEN @ \cup {l} ELSE @]
    /\ UNCHANGED <<storeVars, sched, ctxDone, runs, reload, libVars>>

\* acquire: the ctx.Done() case; the loop returns
LoopAcquireCancelled(l) ==
    /\ loops[l].pc = "acquire"
    /\ CtxDone(l)
    /\ loops' = [loops EXCEPT ![l] = Exited(@)]
    /\ UNCHANGED <<storeVars, sched, chans, ctxDone, runs, reload, hist, libVars>>

\* mutant: the slot is given back to the semaphore made last
release_Latest(cs, sem) ==
    IF cs[Len(cs)].len > 0 THEN [cs EXCEPT ![Len(cs)].len = @ - 1] ELSE cs

\* release(sem): a receive that does not block
release(cs, sem) ==
    IF cs[sem].len > 0 THEN [cs EXCEPT ![sem].len = @ - 1] ELSE cs

\* pingOnce returns; s.release(sem)
LoopPingReturns(l) ==
    /\ loops[l].pc = "ping"
    /\ chans' = release(chans, loops[l].sem)
    /\ loops' = [loops EXCEPT ![l].pc = "update", ![l].sem = 0]
    /\ hist' = [hist EXCEPT !.settling = @ \ {l}]
    /\ UNCHANGED <<storeVars, sched, ctxDone, runs, reload, libVars>>

\* the reload manager's positions after UpdateConfig's critical section and
\* before UpdateTimeout has run
BetweenSteps == {"cancel", "start", "UpdateTargets", "UpdateTimeout"}

\* s.state.UpdateResult(target.Name, result), result what pingOnce returned
LoopUpdateResult(l, result) ==
    /\ loops[l].pc = "update"
    /\ now < thresholdDataPointCount + MaxProbes
    /\ now' = now + 1
    /\ store' = UpdateResult(store, loops[l].name, result, now + 1)
    /\ lastProbe' = ProbeRecorded(lastProbe, loops[l].name, result)
    /\ loops' = [loops EXCEPT ![l].pc = "timing"]
    /\ hist' = [hist EXCEPT !.during = IF reload.pc \in BetweenSteps
                                       THEN loops[l].name ELSE "",
                            !.late = @ \ {l}]
    /\ UNCHANGED <<sched, chans, ctxDone, runs, reload, libVars>>

(***************************************************************************)
(* UpdateConfig (scheduler.go 81-133)                                      *)
(***************************************************************************)
\* mutant: every target of the new list that was known is restarted
RestartNames_AnyKnown(s, updated) == DOMAIN updated \cap DOMAIN s.targets

RestartNames(s, updated) ==
    {n \in DOMAIN updated \cap DOMAIN s.targets :
        s.targets[n].Address # updated[n].Address}

\* the names the loop over updated passes by: in s.targets already, and
\* with the address they have there
KeptNames(s, updated) ==
    {n \in DOMAIN updated \cap DOMAIN s.targets :
        s.targets[n].Address = updated[n].Address}

RemovedNames(s, updated) == {n \in DOMAIN s.targetJobs : n \notin DOMAIN updated}

toStart(s, updated) == {updated[n] : n \in DOMAIN updated \ DOMAIN s.targets}

toRestart(s, updated) == {updated[n] : n \in RestartNames(s, updated)}

\* the cancel functions collected for the restarted, then the removed names
toStopRestart(s, updated) ==
    {s.targetJobs[n] : n \in RestartNames(s, updated) \cap DOMAIN s.targetJobs}

toStopRemoved(s, updated) ==
    {s.targetJobs[n] : n \in RemovedNames(s, updated)}

\* the scheduler when UpdateConfig leaves its critical section; the new
\* semaphore is the channel of index sem
UpdateConfigLocked(s, global, targets, sem) ==
    LET updated == TargetMap(targets)
        stopped == (RestartNames(s, updated) \cap DOMAIN s.targetJobs)
                        \cup RemovedNames(s, updated)
    IN  [s EXCEPT !.cfg = global,
                  !.semaphore = sem,
                  !.targetJobs = [n \in DOMAIN s.targetJobs \ stopped |->
                                      s.targetJobs[n]],
                  !.targets = updated]

(***************************************************************************)
(* The reload manager: main.go's reload closure                            *)
(***************************************************************************)
\* newCfg of a reload closure that holds no configuration (nil)
NoConfig == [Global |-> Global(0, 0), Targets |-> << >>]

ReloadIdle ==
    [ pc |-> "idle", err |-> FALSE, newCfg |-> NoConfig, runCtx |-> 0,
      stopRestart |-> {}, stopRemoved |-> {}, toStart |-> {}, toRestart |-> {},
      count |-> 0 ]

\* mutant: the reload goes on although the load failed
AfterLoad_IgnoresError(rl, err, cfg) ==
    [rl EXCEPT !.pc = "UpdateConfig", !.err = err, !.newCfg = cfg, !.count = @ + 1]

\* the reload after "newCfg, err := parser.LoadConfig(...)": return on an
\* error, else go on to sched.UpdateConfig
AfterLoad(rl, err, cfg) ==
    IF err
    THEN [rl EXCEPT !.pc = "idle", !.err = TRUE, !.newCfg = NoConfig,
                    !.count = @ + 1]
    ELSE [rl EXCEPT !.pc = "UpdateConfig", !.err = FALSE, !.newCfg = cfg,
                    !.count = @ + 1]

\* mutant: the timeout is updated before the targets
NextCall_TimeoutFirst(pc) ==
    CASE pc = "UpdateConfig" -> "UpdateTimeout"
      [] pc = "UpdateTimeout" -> "UpdateTargets"
      [] OTHER -> "idle"

\* the call that follows a returned call of the reload closure
NextCall(pc) ==
    CASE pc = "UpdateConfig" -> "UpdateTargets"
      [] pc = "UpdateTargets" -> "UpdateTimeout"
      [] OTHER -> "idle"

\* where UpdateConfig stands after its critical section and its cancels
\* and starts so far
UpdateConfigPc(rl) ==
    IF rl.stopRestart # {} \/ rl.stopRemoved # {} THEN "cancel"
    ELSE IF rl.runCtx # 0 /\ (rl.toStart # {} \/ rl.toRestart # {}) THEN "start"
    ELSE NextCall("UpdateConfig")

\* the history variable when the reload manager moves from rl to next: at
\* the return of UpdateConfig, the probes in flight for names not in U
Returning(h, rl, next, s, ls) ==
    IF rl.pc \in {"UpdateConfig", "cancel", "start"} /\ next.pc = NextCall("UpdateConfig")
    THEN [h EXCEPT !.returned = TRUE,
                   !.kept = {},
                   !.settling = {l \in 1..Len(ls) :
                                    /\ ls[l].pc = "ping"
                                    /\ ls[l].name \notin DOMAIN s.targets}]
    ELSE h

\* a reload request is served: LoadConfig fails on the file, or returns the
\* configuration cfg it holds
ReloadLoad(err, cfg) ==
    /\ reload.pc = "idle"
    /\ reload.count < MaxReloads
    /\ reload' = AfterLoad(reload, err, cfg)
    /\ hist' = IF reload'.pc = "idle" THEN hist
               ELSE [hist EXCEPT !.timeout = store.timeout, !.during = ""]
    /\ UNCHANGED <<storeVars, sched, chans, loops, ctxDone, runs, libVars>>

\* UpdateConfig's critical section
ReloadUpdateConfig ==
    /\ reload.pc = "UpdateConfig"
    /\ LET global == reload.newCfg.Global
           updated == TargetMap(reload.newCfg.Targets)
           next == [reload EXCEPT
                       !.runCtx = sched.runCtx,
                       !.stopRestart = toStopRestart(sched, updated),
                       !.stopRemoved = toStopRemoved(sched, updated),
                       !.toStart = toStart(sched, updated),
                       !.toRestart = toRestart(sched, updated)]
       IN  /\ chans' = Append(chans, MakeChan(maxConcurrency(global.MaxConcurrency)))
           /\ sched' = UpdateConfigLocked(sched, global, reload.newCfg.Targets,
                                          Len(chans) + 1)
           /\ reload' = [next EXCEPT !.pc = UpdateConfigPc(next)]
           /\ hist' = Returning([hist EXCEPT !.prevMax =
                                    maxConcurrency(sched.cfg.MaxConcurrency),
                                                !.kept = KeptNames(sched, updated)],
                                reload, reload', sched', loops)
    /\ UNCHANGED <<storeVars, loops, ctxDone, runs, libVars>>

\* one iteration of "for _, cancel := range toStop { cancel() }"
ReloadCancel(l) ==
    /\ reload.pc = "cancel"
    /\ IF reload.stopRestart # {} THEN l \in reload.stopRestart
       ELSE l \in reload.stopRemoved
    /\ loops' = [loops EXCEPT ![l].cancelled = TRUE]
    /\ LET next == [reload EXCEPT !.stopRestart = @ \ {l}, !.stopRemoved = @ \ {l}]
       IN  /\ reload' = [next EXCEPT !.pc = UpdateConfigPc(next)]
           /\ hist' = Returning(hist, reload, reload', sched, loops')
    /\ UNCHANGED <<storeVars, sched, chans, ctxDone, runs, libVars>>

\* one iteration of the loops over toStart and then toRestart
ReloadStartTarget(target) ==
    /\ reload.pc = "start"
    /\ IF reload.toStart # {} THEN target \in reload.toStart
       ELSE target \in reload.toRestart
    /\ startTarget(reload.runCtx, target)
    /\ LET next == [reload EXCEPT !.toStart = @ \ {target}, !.toRestart = @ \ {target}]
       IN  /\ reload' = [next EXCEPT !.pc = UpdateConfigPc(next)]
           /\ hist' = Returning(hist, reload, reload', sched', loops')
    /\ UNCHANGED <<storeVars, chans, ctxDone, runs, libVars>>

\* store.UpdateTargets(newCfg.Targets)
ReloadUpdateTargets ==
    /\ reload.pc = "UpdateTargets"
    /\ store' = UpdateTargets(store, reload.newCfg.Targets)
    /\ lastProbe' = TargetsMerged(lastProbe, reload.newCfg.Targets)
    /\ reload' = [reload EXCEPT !.pc = NextCall("UpdateTargets")]
    /\ UNCHANGED <<now, sched, chans, loops, ctxDone, runs, hist, libVars>>

\* store.UpdateTimeout(newCfg.Global.Timeout); return nil
ReloadUpdateTimeout ==
    /\ reload.pc = "UpdateTimeout"
    /\ store' = UpdateTimeout(store, reload.newCfg.Global.Timeout)
    /\ reload' = [reload EXCEPT !.pc = NextCall("UpdateTimeout")]
    /\ UNCHANGED <<now, lastProbe, sched, chans, loops, ctxDone, runs, hist, libVars>>

(***************************************************************************)
(* The running system: main.go builds store and scheduler from the same    *)
(* configuration, runs the scheduler and serves reload requests            *)
(***************************************************************************)
HistInit(global) ==
    [ prevMax |-> maxConcurrency(global.MaxConcurrency), returned |-> FALSE,
      settling |-> {}, timeout |-> global.Timeout, during |-> "", kept |-> {},
      late |-> {} ]

SchedInit(global, targets) ==
    /\ sched = NewScheduler(global, targets)
    /\ chans = <<MakeChan(maxConcurrency(global.MaxConcurrency))>>
    /\ loops = << >>
    /\ ctxDone = {}
    /\ runs = << >>
    /\ reload = ReloadIdle
    /\ hist = HistInit(global)
    /\ LibInit

Init ==
    \E c \in Configs :
        /\ store = NewStore(c.Targets, c.Global.Timeout)
        /\ now = thresholdDataPointCount
        /\ lastProbe = [n \in NamesOf(c.Targets) |-> "none"]
        /\ SchedInit(c.Global, c.Targets)

Next ==
    \/ RunCall
    \/ \E r \in RunIds, c \in Configs, i \in 1..2 :
          i <= Len(c.Targets) /\ RunStartTarget(r, c.Targets[i])
    \/ \E r \in RunIds : RunWait(r)
    \/ \E r \in RunIds : RunReturn(r)
    \/ Stop
    \/ \E l \in LoopIds : LoopTiming(l)
    \/ \E l \in LoopIds : LoopTimer(l)
    \/ \E l \in LoopIds : LoopTimerCancelled(l)
    \/ \E l \in LoopIds : LoopAcquire(l)
    \/ \E l \in LoopIds : LoopAcquireCancelled(l)
    \/ \E l \in LoopIds : LoopPingReturns(l)
    \/ \E l \in LoopIds, r \in PingResults : LoopUpdateResult(l, r)
    \/ \E c \in Configs, err \in BOOLEAN : ReloadLoad(err, c)
    \/ ReloadUpdateConfig
    \/ \E l \in LoopIds : ReloadCancel(l)
    \/ \E c \in Configs, i \in 1..2 :
          i <= Len(c.Targets) /\ ReloadStartTarget(c.Targets[i])
    \/ ReloadUpdateTargets
    \/ ReloadUpdateTimeout

Spec == Init /\ [][Next]_vars

(***************************************************************************)
(* The scheduler under repeated calls of Run and Stop, no reload served    *)
(***************************************************************************)
NextRun ==
    \/ RunCallUpTo(MaxRunCalls)
    \/ \E r \in RunIds, c \in Configs, i \in 1..2 :
          i <= Len(c.Targets) /\ RunStartTarget(r, c.Targets[i])
    \/ \E r \in RunIds : RunWait(r)
    \/ \E r \in RunIds : RunReturn(r)
    \/ Stop
    \/ \E l \in LoopIds : LoopTiming(l)
    \/ \E l \in LoopIds : LoopTimer(l)
    \/ \E l \in LoopIds : LoopTimerCancelled(l)
    \/ \E l \in LoopIds : LoopAcquire(l)
    \/ \E l \in LoopIds : LoopAcquireCancelled(l)
    \/ \E l \in LoopIds : LoopPingReturns(l)
    \/ \E l \in LoopIds, r \in PingResults : LoopUpdateResult(l, r)

SpecRun == Init /\ [][NextRun]_vars

(***************************************************************************)
(* The entry point (main.go 194-233), metrics.Serve (metrics.go 102-125)   *)
(* and the reload request channel                                          *)
(***************************************************************************)
\* who asks for a reload: the hang-up signal and the r key of the TUI
Sources == {"signal", "key"}

\* mutant: the request is queued whatever the channel holds
TrySend_Queues(ch) == [ch EXCEPT !.len = @ + 1]

\* "select { case ch <- struct{}{}: default: }"
TrySend(ch) == IF ch.len < ch.cap THEN [ch EXCEPT !.len = @ + 1] ELSE ch

\* main after "ctx, cancel := signalContext()" and the go statements;
\* listen tells whether cfg.Global.MetricsListen is set
NewEntry(listen) ==
    [ ctx |-> FALSE,            \* the root context is cancelled
      listen |-> IF listen THEN "start" ELSE "off",
                                \* the goroutine of server.ListenAndServe()
      errCh |-> "empty",        \* Serve's channel of capacity 1
      shutdown |-> FALSE,       \* server.Shutdown was called
      serve |-> IF listen THEN "select" ELSE "off",
      err |-> "nil",            \* what Serve returned
      metrics |-> IF listen THEN "serve" ELSE "off",
      reported |-> FALSE,       \* "metrics error" was printed
      sched |-> "run", ui |-> "run", pc |-> "wait",
      sent |-> [src \in Sources |-> 0], served |-> 0 ]

\* signalContext's goroutine: "<-ch; cancel()" on SIGINT or SIGTERM
Signal ==
    /\ ~entry.ctx
    /\ entry' = [entry EXCEPT !.ctx = TRUE]
    /\ UNCHANGED <<storeVars, schedVars, shared, fallback, exposition, reloadCh, icmp>>

\* ListenAndServe cannot bind the address: "errCh <- err"
ListenBindFails ==
    /\ entry.listen = "start"
    /\ entry' = [entry EXCEPT !.listen = "returned", !.errCh = "bind"]
    /\ UNCHANGED <<storeVars, schedVars, shared, fallback, exposition, reloadCh, icmp>>

\* ListenAndServe has bound the address and serves
ListenBinds ==
    /\ entry.listen = "start"
    /\ entry' = [entry EXCEPT !.listen = "serving"]
    /\ UNCHANGED <<storeVars, schedVars, shared, fallback, exposition, reloadCh, icmp>>

\* ListenAndServe returns http.ErrServerClosed after Shutdown
ListenClosed ==
    /\ entry.listen \in {"start", "serving"}
    /\ entry.shutdown
    /\ entry' = [entry EXCEPT !.listen = "returned", !.errCh = "closed"]
    /\ UNCHANGED <<storeVars, schedVars, shared, fallback, exposition, reloadCh, icmp>>

\* Serve's select, case <-ctx.Done(): Shutdown, return ctx.Err()
ServeCtxDone ==
    /\ entry.serve = "select"
    /\ entry.ctx
    /\ entry' = [entry EXCEPT !.serve = "returned", !.shutdown = TRUE,
                               !.err = "canceled"]
    /\ UNCHANGED <<storeVars, schedVars, shared, fallback, exposition, reloadCh, icmp>>

\* Serve's select, case err := <-errCh
ServeErrCh ==
    /\ entry.serve = "select"
    /\ entry.errCh # "empty"
    /\ entry' = [entry EXCEPT !.serve = "returned", !.errCh = "empty",
                               !.err = IF entry.errCh = "closed" THEN "canceled"
                                       ELSE entry.errCh]
    /\ UNCHANGED <<storeVars, schedVars, shared, fallback, exposition, reloadCh, icmp>>

\* main's goroutine around metrics.Serve: report and cancel() unless the
\* error is nil or context.Canceled
MetricsReturns ==
    /\ entry.metrics = "serve"
    /\ entry.serve = "returned"
    /\ entry' = IF entry.err \notin {"nil", "canceled"}
                THEN [entry EXCEPT !.metrics = "done", !.reported = TRUE, !.ctx = TRUE]
                ELSE [entry EXCEPT !.metrics = "done"]
    /\ UNCHANGED <<storeVars, schedVars, shared, fallback, exposition, reloadCh, icmp>>

\* main's goroutine around sched.Run(ctx): Run returns ctx.Err() once the
\* context is cancelled and its loops have exited
SchedReturns ==
    /\ entry.sched = "run"
    /\ entry.ctx
    /\ entry' = [entry EXCEPT !.sched = "done"]
    /\ UNCHANGED <<storeVars, schedVars, shared, fallback, exposition, reloadCh, icmp>>

\* ui.Run(ctx), or "<-ctx.Done()" with the text reporter, returns on the
\* cancelled context
UiReturns ==
    /\ entry.ui = "run"
    /\ entry.ctx
    /\ entry' = [entry EXCEPT !.ui = "done"]
    /\ UNCHANGED <<storeVars, schedVars, shared, fallback, exposition, reloadCh, icmp>>

\* ui.Run returns context.Canceled on q or Ctrl-C; main does not cancel
UiQuit ==
    /\ entry.ui = "run"
    /\ entry' = [entry EXCEPT !.ui = "done"]
    /\ UNCHANGED <<storeVars, schedVars, shared, fallback, exposition, reloadCh, icmp>>

\* wg.Wait() returns; main returns and its deferred cancel() runs
MainExit ==
    /\ entry.pc = "wait"
    /\ entry.ui = "done"
    /\ entry.sched = "done"
    /\ entry.metrics \in {"off", "done"}
    /\ entry' = [entry EXCEPT !.pc = "exit", !.ctx = TRUE]
    /\ UNCHANGED <<storeVars, schedVars, shared, fallback, exposition, reloadCh, icmp>>

\* requestReload(ch) for a hang-up signal or an r key
RequestReload(src) ==
    /\ entry.sent[src] < MaxRequests
    /\ reloadCh' = TrySend(reloadCh)
    /\ entry' = [entry EXCEPT !.sent[src] = @ + 1]
    /\ UNCHANGED <<storeVars, schedVars, shared, fallback, exposition, icmp>>

\* the reload manager takes the pending request: "case <-reloadCh"
ReceiveReload ==
    /\ reloadCh.len > 0
    /\ reloadCh' = [reloadCh EXCEPT !.len = @ - 1]
    /\ entry' = [entry EXCEPT !.served = @ + 1]
    /\ UNCHANGED <<storeVars, schedVars, shared, fallback, exposition, icmp>>

InitMain ==
    /\ \E listen \in BOOLEAN : entry = NewEntry(listen)
    /\ reloadCh = MakeChan(1)
    /\ shared = << >> /\ fallback = << >> /\ exposition = << >>
    /\ icmp = << >>
    /\ store = NewStore(<< >>, 0)
    /\ now = 0
    /\ lastProbe = << >>
    /\ sched = << >> /\ chans = << >> /\ loops = << >> /\ ctxDone = {}
    /\ runs = << >> /\ reload = << >> /\ hist = << >>

NextMain ==
    \/ Signal
    \/ ListenBindFails
    \/ ListenBinds
    \/ ListenClosed
    \/ ServeCtxDone
    \/ ServeErrCh
    \/ MetricsReturns
    \/ SchedReturns
    \/ UiReturns
    \/ UiQuit
    \/ MainExit
    \/ \E src \in Sources : RequestReload(src)
    \/ ReceiveReload

SpecMain == InitMain /\ [][NextMain]_vars

(***************************************************************************)
(* The store under arbitrary sequences of its operations                   *)
(***************************************************************************)
\* a store that has recorded k successes of one target: first one of rtt x,
\* then k-1 of rtt y, at the times t0+1 .. t0+k
RECURSIVE WarmedFrom(_, _, _, _, _, _, _)
WarmedFrom(s, name, x, y, i, k, t0) ==
    IF i > k \/ s.historySize < 0 THEN s
    ELSE WarmedFrom(UpdateResult(s, name,
                                 [Success |-> TRUE, RTT |-> IF i = 1 THEN x ELSE y],
                                 t0 + i),
                    name, x, y, i + 1, k, t0)

Warmed(s, name, x, y, k, t0) == WarmedFrom(s, name, x, y, 1, k, t0)

\* the numbers of results a store has recorded for one target when it is
\* first observed: none, enough for the averaging window, a full history
WarmUps == {0, thresholdDataPointCount, defaultHistorySize}

InitStore ==
    \E l \in TargetLists, t \in Timeouts, x \in RTTs, y \in RTTs,
       k \in WarmUps :
        /\ k > 0 => "a" \in NamesOf(l)
        /\ k = 0 => x = y /\ x = 1
        /\ k = defaultHistorySize => x = 1
        /\ store = Warmed(NewStore(l, t), "a", x, y, k, thresholdDataPointCount - k)
        /\ now = thresholdDataPointCount
        /\ lastProbe = [n \in NamesOf(l) |->
                            IF n = "a" /\ k > 0 THEN "ok" ELSE "none"]
        /\ SchedInit(NoConfig.Global, NoConfig.Targets)

StoreUpdateResult(name, result) ==
    /\ now < thresholdDataPointCount + MaxTime
    /\ now' = now + 1
    /\ store' = UpdateResult(store, name, result, now + 1)
    /\ lastProbe' = ProbeRecorded(lastProbe, name, result)
    /\ UNCHANGED <<schedVars, libVars>>

StoreUpdateTargets(targets) ==
    /\ store' = UpdateTargets(store, targets)
    /\ lastProbe' = TargetsMerged(lastProbe, targets)
    /\ UNCHANGED <<now, schedVars, libVars>>

StoreUpdateTimeout(timeout) ==
    /\ store' = UpdateTimeout(store, timeout)
    /\ UNCHANGED <<now, lastProbe, schedVars, libVars>>

NextStore ==
    \/ \E n \in Names, r \in Results : StoreUpdateResult(n, r)
    \/ \E l \in TargetLists : StoreUpdateTargets(l)
    \/ \E t \in Timeouts : StoreUpdateTimeout(t)

SpecStore == InitStore /\ [][NextStore]_vars

(***************************************************************************)
(* The store as Go memory (internal/state/store.go)                        *)
(*                                                                         *)
(* shared.arrays are the backing arrays of the History slices (an array is *)
(* the sequence of its cap elements), a slice is [arr, len, cap] with      *)
(* arr = 0 for nil; shared.objs maps a name to its *TargetStatus object;   *)
(* shared.writer says that s.mu is held by a writer; shared.upd is the     *)
(* call of UpdateResult in progress; shared.got are the copies returned to *)
(* readers so far.  The variable store is the store as the calls that have *)
(* returned define it: a call takes effect on it when it unlocks.          *)
(***************************************************************************)
NilSlice == [arr |-> 0, len |-> 0, cap |-> 0]

ZeroPoint == [Time |-> 0, RTT |-> 0]

\* the elements of a slice
Elems(arrays, sl) ==
    IF sl.arr = 0 THEN << >> ELSE SubSeq(arrays[sl.arr], 1, sl.len)

\* the capacity Go's append gives a grown slice of small elements
GrownCap(cap) == IF cap = 0 THEN 1 ELSE 2 * cap

\* append(slice, point): the arrays and the slice after it
AppendSlice(arrays, sl, point) ==
    IF sl.len < sl.cap
    THEN [ arrays |-> [arrays EXCEPT ![sl.arr][sl.len + 1] = point],
           slice |-> [sl EXCEPT !.len = @ + 1] ]
    ELSE LET old == Elems(arrays, sl)
             cap == GrownCap(sl.cap)
             new == [i \in 1..cap |-> IF i <= sl.len THEN old[i]
                                      ELSE IF i = sl.len + 1 THEN point
                                      ELSE ZeroPoint]
         IN  [ arrays |-> Append(arrays, new),
               slice |-> [arr |-> Len(arrays) + 1, len |-> sl.len + 1, cap |-> cap] ]

\* appendHistory on the object's slice: append, or shift in place when full
appendHistoryInPlace(arrays, sl, point, historySize) ==
    IF historySize <= 0 THEN [arrays |-> arrays, slice |-> sl]
    ELSE IF sl.len < historySize THEN AppendSlice(arrays, sl, point)
    ELSE [ arrays |-> [arrays EXCEPT ![sl.arr] =
                          [i \in 1..Len(@) |-> IF i < sl.len THEN @[i + 1]
                                               ELSE IF i = sl.len THEN point
                                               ELSE @[i]]],
           slice |-> sl ]

\* mutant: the clone keeps the History slice of the source
copyTargetStatus_Shallow(arrays, source) ==
    [arrays |-> arrays, clone |-> source]

\* copyTargetStatus: the arrays and the clone after it
copyTargetStatus(arrays, source) ==
    IF source.History.len > 0
    THEN [ arrays |-> Append(arrays, Elems(arrays, source.History)),
           clone |-> [source EXCEPT !.History =
                        [arr |-> Len(arrays) + 1, len |-> source.History.len,
                         cap |-> source.History.len]] ]
    ELSE [arrays |-> arrays, clone |-> source]

\* the object as a value: its History the elements of the slice
ValueOf(arrays, obj) == [obj EXCEPT !.History = Elems(arrays, obj.History)]

\* the targets of the store as values
ViewOf(sh) == [n \in DOMAIN sh.objs |-> ValueOf(sh.arrays, sh.objs[n])]

\* a returned copy as a value
GotView(sh, g) == ValueOf(sh.arrays, sh.got[g].status)

\* the memory of a store whose targets have the given values, every History
\* in an array of its own
RECURSIVE CapFor(_, _)
CapFor(len, cap) == IF cap >= len THEN cap ELSE CapFor(len, GrownCap(cap))

MemoryOf(s) ==
    LET names == DOMAIN s.targets
        order == CHOOSE f \in [1..Cardinality(names) -> names] :
                    \A n \in names : \E i \in DOMAIN f : f[i] = n
        index(n) == CHOOSE i \in DOMAIN order : order[i] = n
        arrayOf(n) == LET h == s.targets[n].History
                      IN  [i \in 1..CapFor(Len(h), 0) |->
                              IF i <= Len(h) THEN h[i] ELSE ZeroPoint]
    IN  [ arrays |-> [i \in 1..Cardinality(names) |-> arrayOf(order[i])],
          objs |-> [n \in names |->
                      [s.targets[n] EXCEPT !.History =
                          IF Len(s.targets[n].History) = 0 THEN NilSlice
                          ELSE [arr |-> index(n), len |-> Len(@),
                                cap |-> CapFor(Len(@), 0)]]],
          writer |-> FALSE,
          upd |-> [pc |-> "idle", name |-> "", result |-> [Success |-> FALSE, RTT |-> 0]],
          got |-> << >>,
          writes |-> 0 ]

\* the object UpdateResult works on: the one in the map, or a new one
ObjFor(sh, name) ==
    IF name \in DOMAIN sh.objs THEN sh.objs[name]
    ELSE [NewTargetStatus("", "") EXCEPT !.History = NilSlice]

\* mutant: a reader does not wait for the writer
RLockFree_Always(sh) == TRUE

\* s.mu.RLock() can be taken: no writer holds s.mu
RLockFree(sh) == ~sh.writer

\* UpdateResult: s.mu.Lock(), the lookup of the target or its creation, and
\* time.Now()
SharedLock(name, result) ==
    /\ ~shared.writer
    /\ shared.upd.pc = "idle"
    /\ now < thresholdDataPointCount + MaxProbes
    /\ now' = now + 1
    /\ shared' = [shared EXCEPT
          !.writer = TRUE,
          !.objs = [n \in DOMAIN shared.objs \cup {name} |-> ObjFor(shared, n)],
          !.upd = [pc |-> "fields", name |-> name, result |-> result]]
    /\ UNCHANGED <<store, lastProbe, schedVars, fallback, exposition, mainVars, icmp>>

\* UpdateResult: the times and the counters (store.go 51-55 and 84-87)
SharedFields ==
    /\ shared.upd.pc = "fields"
    /\ LET n == shared.upd.name
           r == shared.upd.result
       IN  shared' = [shared EXCEPT
              !.objs[n] = IF r.Success
                          THEN [@ EXCEPT !.LastRTT = r.RTT,
                                         !.LastSuccessAt = now,
                                         !.ConsecutiveOK = @ + 1,
                                         !.ConsecutiveNG = 0,
                                         !.TotalSuccess = @ + 1]
                          ELSE [@ EXCEPT !.LastFailureAt = now,
                                         !.ConsecutiveNG = @ + 1,
                                         !.ConsecutiveOK = 0,
                                         !.TotalFailure = @ + 1],
              !.upd.pc = IF r.Success THEN "history" ELSE "status"]
    /\ UNCHANGED <<storeVars, schedVars, fallback, exposition, mainVars, icmp>>

\* UpdateResult: s.appendHistory(target, result.RTT, now)
SharedHistory ==
    /\ shared.upd.pc = "history"
    /\ LET n == shared.upd.name
           after == appendHistoryInPlace(shared.arrays, shared.objs[n].History,
                                         [Time |-> now, RTT |-> shared.upd.result.RTT],
                                         store.historySize)
       IN  shared' = [shared EXCEPT !.arrays = after.arrays,
                                    !.objs[n].History = after.slice,
                                    !.upd.pc = "status"]
    /\ UNCHANGED <<storeVars, schedVars, fallback, exposition, mainVars, icmp>>

\* UpdateResult: the classification (store.go 61-80 and 88-92)
SharedStatus ==
    /\ shared.upd.pc = "status"
    /\ LET n == shared.upd.name
           r == shared.upd.result
           obj == shared.objs[n]
       IN  shared' = [shared EXCEPT
              !.objs[n].Status =
                  IF r.Success
                  THEN ClassifySuccess(Elems(shared.arrays, obj.History), r.RTT,
                                       store.timeout)
                  ELSE ClassifyFailure(obj.ConsecutiveNG, store.downThreshold),
              !.upd.pc = "unlock"]
    /\ UNCHANGED <<storeVars, schedVars, fallback, exposition, mainVars, icmp>>

\* UpdateResult: the deferred s.mu.Unlock(); the call returns
SharedUnlock ==
    /\ shared.upd.pc = "unlock"
    /\ shared' = [shared EXCEPT !.writer = FALSE, !.upd.pc = "idle"]
    /\ store' = UpdateResult(store, shared.upd.name, shared.upd.result, now)
    /\ lastProbe' = ProbeRecorded(lastProbe, shared.upd.name, shared.upd.result)
    /\ UNCHANGED <<now, schedVars, fallback, exposition, mainVars, icmp>>

\* UpdateTargets, under s.mu.Lock() from its first to its last statement
SharedUpdateTargets(targets) ==
    /\ ~shared.writer
    /\ shared' = [shared EXCEPT !.objs =
          [n \in NamesOf(targets) |->
              IF n \in DOMAIN shared.objs
              THEN [shared.objs[n] EXCEPT !.Address = LastOf(targets, n).Address,
                                          !.Group = LastOf(targets, n).Group]
              ELSE [NewTargetStatus(LastOf(targets, n).Address, LastOf(targets, n).Group)
                        EXCEPT !.History = NilSlice]]]
    /\ store' = UpdateTargets(store, targets)
    /\ lastProbe' = TargetsMerged(lastProbe, targets)
    /\ UNCHANGED <<now, schedVars, fallback, exposition, mainVars, icmp>>

\* the loop of GetSnapshot over the map: the arrays and the copies after it
RECURSIVE CopyAll(_, _, _, _)
CopyAll(arrays, objs, names, copies) ==
    IF names = {} THEN [arrays |-> arrays, copies |-> copies]
    ELSE LET n == CHOOSE m \in names : TRUE
             c == copyTargetStatus(arrays, objs[n])
         IN  CopyAll(c.arrays, objs, names \ {n},
                     Append(copies, [name |-> n, status |-> c.clone]))

\* GetSnapshot, under s.mu.RLock()
SharedGetSnapshot ==
    /\ RLockFree(shared)
    /\ DOMAIN shared.objs # {}
    /\ Len(shared.got) + Cardinality(DOMAIN shared.objs) <= MaxCopies
    /\ LET c == CopyAll(shared.arrays, shared.objs, DOMAIN shared.objs, << >>)
       IN  shared' = [shared EXCEPT !.arrays = c.arrays, !.got = @ \o c.copies]
    /\ UNCHANGED <<storeVars, schedVars, fallback, exposition, mainVars, icmp>>

\* GetTargetStatus(name) for a name the store holds, under s.mu.RLock()
SharedGetTargetStatus(name) ==
    /\ RLockFree(shared)
    /\ name \in DOMAIN shared.objs
    /\ Len(shared.got) < MaxCopies
    /\ LET c == copyTargetStatus(shared.arrays, shared.objs[name])
       IN  shared' = [shared EXCEPT
              !.arrays = c.arrays,
              !.got = Append(@, [name |-> name, status |-> c.clone])]
    /\ UNCHANGED <<storeVars, schedVars, fallback, exposition, mainVars, icmp>>

\* what a caller writes into a copy it was given
Scribble == [Time |-> -1, RTT |-> -1]

\* the caller assigns an element of the History of copy g
ClientSetElem(g, i) ==
    /\ shared.writes < MaxClientWrites
    /\ i <= shared.got[g].status.History.len
    /\ shared' = [shared EXCEPT
          !.arrays[shared.got[g].status.History.arr][i] = Scribble,
          !.writes = @ + 1]
    /\ UNCHANGED <<storeVars, schedVars, fallback, exposition, mainVars, icmp>>

\* the caller appends to the History of copy g
ClientAppend(g) ==
    /\ shared.writes < MaxClientWrites
    /\ LET after == AppendSlice(shared.arrays, shared.got[g].status.History, Scribble)
       IN  shared' = [shared EXCEPT !.arrays = after.arrays,
                                    !.got[g].status.History = after.slice,
                                    !.writes = @ + 1]
    /\ UNCHANGED <<storeVars, schedVars, fallback, exposition, mainVars, icmp>>

\* the caller assigns the fields of copy g
ClientSetFields(g) ==
    /\ shared.writes < MaxClientWrites
    /\ shared' = [shared EXCEPT
          !.got[g].status = [@ EXCEPT !.Status = StatusUnknown, !.LastRTT = -1,
                                      !.TotalSuccess = -1, !.Address = "scribble"],
          !.writes = @ + 1]
    /\ UNCHANGED <<storeVars, schedVars, fallback, exposition, mainVars, icmp>>

\* the target lists the store is built with and reloaded with
SharedLists ==
    { <<Tgt("a", "a1", "")>>,
      <<Tgt("a", "a2", "g"), Tgt("b", "b1", "g")>> }

InitShared ==
    /\ \E l \in SharedLists, k \in {0, defaultHistorySize} :
          /\ k > 0 => "a" \in NamesOf(l)
          /\ store = Warmed(NewStore(l, 12), "a", 1, 3, k, thresholdDataPointCount - k)
          /\ lastProbe = [n \in NamesOf(l) |->
                              IF n = "a" /\ k > 0 THEN "ok" ELSE "none"]
    /\ now = thresholdDataPointCount
    /\ shared = MemoryOf(store)
    /\ fallback = FallbackIdle
    /\ exposition = << >>
    /\ sched = << >> /\ chans = << >> /\ loops = << >> /\ ctxDone = {}
    /\ runs = << >> /\ reload = << >> /\ hist = << >>
    /\ reloadCh = << >> /\ entry = << >> /\ icmp = << >>

NextShared ==
    \/ \E n \in Names, r \in PingResults : SharedLock(n, r)
    \/ SharedFields
    \/ SharedHistory
    \/ SharedStatus
    \/ SharedUnlock
    \/ \E l \in SharedLists : SharedUpdateTargets(l)
    \/ SharedGetSnapshot
    \/ \E n \in Names : SharedGetTargetStatus(n)
    \/ \E g \in 1..Len(shared.got), i \in {1, defaultHistorySize} : ClientSetElem(g, i)
    \/ \E g \in 1..Len(shared.got) : ClientAppend(g)
    \/ \E g \in 1..Len(shared.got) : ClientSetFields(g)

SpecShared == InitShared /\ [][NextShared]_vars

(***************************************************************************)
(* Claims about the scheduler and the reload                               *)
(***************************************************************************)
\* the resolved max_concurrency in force
CurrentMax == maxConcurrency(sched.cfg.MaxConcurrency)

\* C1: the probes between acquire and release number at most the current
\* max_concurrency M, except after an UpdateConfig that lowered it, when
\* they may exceed M but not the previous max_concurrency.
C1_ConcurrencyLimit ==
    \/ Cardinality(InFlight) <= CurrentMax
    \/ /\ CurrentMax < hist.prevMax
       /\ Cardinality(InFlight) <= hist.prevMax

\* a reload has loaded its configuration and store.UpdateTargets has returned
TargetsUpdated == reload.count > 0 /\ ~reload.err /\ reload.pc \in {"UpdateTimeout", "idle"}

\* C2: in a reload, once store.UpdateTargets has deleted a name, the loop of
\* that removed target does not call the store's update for the name.
C2_NoWriteAfterDelete ==
    [][\A l \in LoopIds, r \in PingResults :
          ( /\ LoopUpdateResult(l, r)
            /\ TargetsUpdated
            /\ loops[l].name \notin NamesOf(reload.newCfg.Targets) )
          => loops[l].name \in DOMAIN store.targets]_vars

\* UpdateConfig(_, U) has returned and the probes then in flight for names
\* not in U have all returned
Settled ==
    /\ hist.returned
    /\ reload.pc \notin {"UpdateConfig", "cancel", "start"}
    /\ hist.settling = {}

\* C3: after UpdateConfig(_, U) has returned and the probes in flight for
\* removed targets at that moment have returned, no probe starts for a name
\* that is not in U.
C3_NoProbeForRemoved ==
    [][\A l \in LoopIds :
          (LoopAcquire(l) /\ Settled) => loops[l].name \in DOMAIN sched.targets]_vars

\* C6: a reload whose load fails changes nothing in the scheduler (options,
\* target table, semaphore, loops) nor in the store (targets, histories,
\* counters, timeout), and calls none of UpdateConfig, UpdateTargets,
\* UpdateTimeout.
C6_FailedLoadNoop ==
    /\ [](reload.err => reload.pc = "idle")
    /\ [][(reload'.count # reload.count /\ reload'.err)
            => /\ reload'.pc = "idle"
               /\ UNCHANGED <<store, sched, chans, loops, ctxDone, runs>>]_vars

\* a load has failed while a probe was in flight and the store held results
C6_Witness ==
    /\ reload.err /\ reload.count > 0
    /\ InFlight # {}
    /\ \E n \in DOMAIN store.targets : store.targets[n].History # << >>

\* the store holds the targets of the list, with the list's addresses
HoldsTargets(s, targets) ==
    \A n \in NamesOf(targets) :
        /\ n \in DOMAIN s.targets
        /\ s.targets[n].Address = LastOf(targets, n).Address

\* C7: after a successful load the reload calls UpdateConfig, then
\* UpdateTargets, then UpdateTimeout, each after the previous one returned;
\* a store update classified between the first and the third uses the old
\* timeout.
C7_ReloadOrder ==
    /\ [][reload'.pc # reload.pc =>
            /\ reload'.pc = "UpdateConfig" => reload.pc = "idle" /\ ~reload'.err
            /\ reload'.pc \in {"cancel", "start"} =>
                    reload.pc \in {"UpdateConfig", "cancel", "start"}
            /\ reload'.pc = "UpdateTargets" =>
                    reload.pc \in {"UpdateConfig", "cancel", "start"}
            /\ reload'.pc = "UpdateTimeout" => reload.pc = "UpdateTargets"
            /\ reload'.pc = "idle" => reload.pc = "UpdateTimeout"]_vars
    /\ [][store'.timeout # store.timeout =>
            /\ ReloadUpdateTimeout
            /\ sched.cfg = reload.newCfg.Global
            /\ sched.targets = TargetMap(reload.newCfg.Targets)
            /\ HoldsTargets(store, reload.newCfg.Targets)]_vars
    /\ [][\A l \in LoopIds, r \in PingResults :
            (LoopUpdateResult(l, r) /\ r.Success /\ reload.pc \in BetweenSteps)
            => /\ store.timeout = hist.timeout
               /\ store'.targets[loops[l].name].Status =
                    ClassifySuccess(store'.targets[loops[l].name].History,
                                    r.RTT, hist.timeout)]_vars

\* UpdateTimeout is about to run with a timeout under which the last store
\* update, made during this reload, would have been classified otherwise
C7_Witness ==
    /\ reload.pc = "UpdateTimeout"
    /\ hist.during \in DOMAIN store.targets
    /\ lastProbe[hist.during] = "ok"
    /\ LET e == store.targets[hist.during]
       IN  /\ e.Status = ClassifySuccess(e.History, e.LastRTT, hist.timeout)
           /\ e.Status # ClassifySuccess(e.History, e.LastRTT,
                                         reload.newCfg.Global.Timeout)

(***************************************************************************)
(* Claims about the state store                                            *)
(***************************************************************************)
Entries == DOMAIN store.targets

\* the counters and the history of an entry all have their zero values
ZeroCounters(e) ==
    /\ e.ConsecutiveOK = 0 /\ e.ConsecutiveNG = 0
    /\ e.TotalSuccess = 0 /\ e.TotalFailure = 0
    /\ e.LastRTT = 0 /\ e.LastSuccessAt = 0 /\ e.LastFailureAt = 0

\* C4: when update_targets(U) returns, the store holds exactly the names of
\* U, and every name of U that the store did not hold before is a fresh
\* entry: UNKNOWN, empty history, zero counters, Address and Group those of
\* a record of U.
C4_UpdateTargetsNames ==
    [][\A l \in TargetLists : StoreUpdateTargets(l) =>
          /\ DOMAIN store'.targets = NamesOf(l)
          /\ \A n \in NamesOf(l) \ DOMAIN store.targets :
                LET e == store'.targets[n]
                IN  /\ e.Status = StatusUnknown
                    /\ e.History = <<>>
                    /\ ZeroCounters(e)
                    /\ \E i \in 1..Len(l) :
                          /\ l[i].Name = n
                          /\ e.Address = l[i].Address
                          /\ e.Group = l[i].Group]_vars

\* C4 witness: results have been recorded, "a" has been deleted and "b",
\* with the address only the list <<b@b1, b@b2>> gives it, is unprobed.
C4_Witness ==
    /\ Entries = {"b"}
    /\ store.targets["b"].Address = "b2"
    /\ store.targets["b"].Status = StatusUnknown
    /\ now > thresholdDataPointCount

\* C5: update_targets(U) leaves history, counters, last times and status of
\* every name it keeps as they were; Address and Group become those of the
\* (last) record of U for the name.
C5_UpdateTargetsPreserves ==
    [][\A l \in TargetLists : StoreUpdateTargets(l) =>
          \A n \in NamesOf(l) \cap DOMAIN store.targets :
             LET old == store.targets[n]
                 new == store'.targets[n]
             IN  /\ new.History = old.History
                 /\ new.ConsecutiveOK = old.ConsecutiveOK
                 /\ new.ConsecutiveNG = old.ConsecutiveNG
                 /\ new.TotalSuccess = old.TotalSuccess
                 /\ new.TotalFailure = old.TotalFailure
                 /\ new.LastRTT = old.LastRTT
                 /\ new.LastSuccessAt = old.LastSuccessAt
                 /\ new.LastFailureAt = old.LastFailureAt
                 /\ new.Status = old.Status
                 /\ new.Address = LastOf(l, n).Address
                 /\ new.Group = LastOf(l, n).Group]_vars

\* C5 witness: "a" carries the address of a later list and still has the
\* samples and the failure time recorded before.
C5_Witness ==
    /\ "a" \in Entries
    /\ store.targets["a"].Address = "a2"
    /\ Len(store.targets["a"].History) > thresholdDataPointCount
    /\ store.targets["a"].LastFailureAt > 0

\* the sum of the RTTs of the last k samples of a history
RECURSIVE LastSum(_, _)
LastSum(h, k) ==
    IF k = 0 \/ Len(h) = 0 THEN 0
    ELSE h[Len(h)].RTT + LastSum(SubSeq(h, 1, Len(h) - 1), k - 1)

Window(h) == IF Len(h) < thresholdDataPointCount THEN Len(h)
             ELSE thresholdDataPointCount

TruncatedOK(h, timeout) ==
    \E q \in 0..timeout, r \in 0..LastSum(h, Window(h)) :
        /\ 4 * q <= timeout /\ timeout < 4 * (q + 1)
        /\ r * Window(h) <= LastSum(h, Window(h))
        /\ LastSum(h, Window(h)) < (r + 1) * Window(h)
        /\ r <= q

C9_FailureStatus ==
    /\ [](\A n \in Entries :
            lastProbe[n] = "fail" =>
               /\ store.targets[n].ConsecutiveNG >= 3
                     => store.targets[n].Status = StatusDown
               /\ store.targets[n].ConsecutiveNG \in {1, 2}
                     => store.targets[n].Status = StatusWarn)
    /\ [][\A m \in Names, r \in Results :
            StoreUpdateResult(m, r) /\ r.Success =>
               /\ store'.targets[m].ConsecutiveNG = 0
               /\ store'.targets[m].Status # StatusDown]_vars

\* C9 witness: a target that went DOWN on three failures has recorded a
\* success since.
C9_Witness ==
    \E n \in Entries :
        /\ lastProbe[n] = "ok"
        /\ store.targets[n].TotalFailure >= 3
        /\ store.targets[n].LastFailureAt + 1 = store.targets[n].LastSuccessAt
        /\ store.targets[n].ConsecutiveNG = 0
        /\ store.targets[n].Status \in {StatusOK, StatusWarn}

\* C10: at most one of consecutive_ok and consecutive_ng is non-zero, and
\* both are zero only for a target without a recorded result.
C10_ConsecutiveExclusive ==
    \A n \in Entries :
        /\ store.targets[n].ConsecutiveOK = 0 \/ store.targets[n].ConsecutiveNG = 0
        /\ (store.targets[n].ConsecutiveOK = 0 /\ store.targets[n].ConsecutiveNG = 0)
              => lastProbe[n] = "none"

\* C10 witness: one target has failed after successes, another has no
\* recorded result.
C10_Witness ==
    /\ \E n \in Entries :
          /\ store.targets[n].ConsecutiveNG > 0
          /\ store.targets[n].TotalSuccess > 0
    /\ \E n \in Entries :
          /\ lastProbe[n] = "none"
          /\ store.targets[n].ConsecutiveOK = 0
          /\ store.targets[n].ConsecutiveNG = 0

\* the history the store holds for a name; none for a name it does not hold
HistoryOf(s, n) == IF n \in DOMAIN s.targets THEN s.targets[n].History ELSE << >>

\* C11: a history never holds more than H = 100 samples; a history changes
\* only by the update of a successful result, which appends that result's
\* sample (dropping the oldest one of a full history); the update of a
\* failed result leaves the history as it is.
C11_HistoryBounded ==
    /\ [](\A n \in Entries : Len(store.targets[n].History) <= defaultHistorySize)
    /\ [][\A n \in DOMAIN store'.targets :
            HistoryOf(store', n) # HistoryOf(store, n) =>
                LET h == HistoryOf(store, n)
                    h2 == HistoryOf(store', n)
                IN  /\ \E r \in Results : r.Success /\ StoreUpdateResult(n, r)
                    /\ h2[Len(h2)] = [Time |-> now', RTT |-> store'.targets[n].LastRTT]
                    /\ SubSeq(h2, 1, Len(h2) - 1) =
                          IF Len(h) < defaultHistorySize THEN h ELSE Tail(h)]_vars
    /\ [][\A n \in Names :
            StoreUpdateResult(n, [Success |-> FALSE, RTT |-> 0])
                => HistoryOf(store', n) = HistoryOf(store, n)]_vars

\* a full history has taken a further sample, and a failure was recorded
C11_Witness ==
    \E n \in Entries :
        /\ Len(store.targets[n].History) = defaultHistorySize
        /\ store.targets[n].History[defaultHistorySize].Time > thresholdDataPointCount
        /\ store.targets[n].TotalSuccess > defaultHistorySize
        /\ store.targets[n].TotalFailure > 0

\* the names the store holds before and after a step
Kept == DOMAIN store.targets \cap DOMAIN store'.targets

\* C12: while an entry exists its total_success and total_failure never
\* decrease, whatever operation runs; an update adds exactly 1 to exactly
\* one of them (to total_success for a success, to total_failure for a
\* failure).
C12_TotalsMonotone ==
    /\ [][\A n \in Kept :
            /\ store'.targets[n].TotalSuccess >= store.targets[n].TotalSuccess
            /\ store'.targets[n].TotalFailure >= store.targets[n].TotalFailure]_vars
    /\ [][\A n \in Names, r \in Results :
            StoreUpdateResult(n, r) =>
                LET ok == IF n \in Entries THEN store.targets[n].TotalSuccess ELSE 0
                    ng == IF n \in Entries THEN store.targets[n].TotalFailure ELSE 0
                IN  /\ store'.targets[n].TotalSuccess = ok + (IF r.Success THEN 1 ELSE 0)
                    /\ store'.targets[n].TotalFailure = ng + (IF r.Success THEN 0 ELSE 1)
                    /\ \A m \in Kept \ {n} :
                          /\ store'.targets[m].TotalSuccess = store.targets[m].TotalSuccess
                          /\ store'.targets[m].TotalFailure = store.targets[m].TotalFailure]_vars

\* an entry has counted successes and failures, a success last
C12_Witness ==
    \E n \in Entries :
        /\ store.targets[n].TotalSuccess > 0
        /\ store.targets[n].TotalFailure > 0
        /\ lastProbe[n] = "ok"

\* C13: an entry's status is UNKNOWN iff no result was recorded for it since
\* it was created; a classified entry stays classified for as long as it
\* exists, whatever operation runs.
C13_UnknownIffNoResult ==
    /\ [](\A n \in Entries :
            store.targets[n].Status = StatusUnknown <=> lastProbe[n] = "none")
    /\ [][\A n \in Kept :
            store.targets[n].Status # StatusUnknown
                => store'.targets[n].Status # StatusUnknown]_vars

\* the store holds an entry without a result next to one that has a result
\* and whose address a later update_targets replaced
C13_Witness ==
    \E n \in Entries, m \in Entries :
        /\ store.targets[n].Status = StatusUnknown
        /\ lastProbe[m] = "fail"
        /\ store.targets[m].Status # StatusUnknown
        /\ store.targets[m].Address = "a2"

\* the primary's result is a permission-denied failure: a failure whose error
\* is os.ErrPermission or syscall.EPERM, or reads "operation not permitted"
\* or "permission denied" in any letter case
PermissionDenied(result) ==
    /\ ~result.Success
    /\ result.Error \in
         { Err({"os.ErrPermission"}, <<"permission", "denied">>),
           Err({"syscall.EPERM", "os.ErrPermission"}, <<"operation", "not", "permitted">>),
           Err({}, <<"socket:", "Operation", "not", "permitted">>),
           Err({}, <<"icmp:", "Permission", "Denied">>),
           Err({"os.ErrPermission"}, <<"access", "refused">>) }

\* C16: a call of the fallback wrapper invokes the primary exactly once and
\* the secondary iff the primary returned a permission-denied failure (then
\* once); it returns the secondary's result when the secondary was invoked,
\* and the primary's result unchanged otherwise.
C16_FallbackIffPermission ==
    /\ fallback.pc \in {"secondary", "returned"} => fallback.primary = 1
    /\ fallback.pc = "secondary" => PermissionDenied(fallback.result)
    /\ fallback.pc = "returned" =>
          /\ fallback.secondary = (IF PermissionDenied(fallback.result) THEN 1 ELSE 0)
          /\ fallback.returned = (IF PermissionDenied(fallback.result)
                                  THEN fallback.fromSecondary ELSE fallback.result)

\* the primary failed with an error that only reads like a permission error,
\* and the wrapper returned the success of the secondary
C16_Witness ==
    /\ fallback.pc = "returned"
    /\ fallback.result.Error = Err({}, <<"icmp:", "Permission", "Denied">>)
    /\ fallback.secondary = 1
    /\ fallback.returned.Success /\ fallback.returned.RTT = 3

\* C17: the label values written for a target's name, address and group,
\* unescaped by the exposition rules, are the name, the address and the
\* group themselves.
C17_LabelRoundTrip ==
    exposition.pc = "read" => exposition.read = exposition.target

\* the copies returned so far, before a step
Given == 1..Len(shared.got)

\* C14: the copies snapshot() and get(name) return share no state with the
\* store: a caller's write into a copy (an element of its history, an
\* append to it, its fields) changes neither the store, so nor what a later
\* snapshot or get returns, nor another copy; no store operation changes a
\* copy already returned.
C14_IndependentCopies ==
    [][/\ shared'.writes # shared.writes =>
            /\ ViewOf(shared') = ViewOf(shared)
            /\ Cardinality({g \in Given : GotView(shared', g) # GotView(shared, g)}) <= 1
       /\ shared'.writes = shared.writes =>
            \A g \in Given : GotView(shared', g) = GotView(shared, g)]_vars

\* a caller wrote into its copy of a full history, and the store has since
\* recorded another sample for that target
C14_Witness ==
    \E g \in Given :
        LET n == shared.got[g].name
        IN  /\ n \in Entries
            /\ shared.got[g].status.History.len = defaultHistorySize
            /\ GotView(shared, g).History[1] = Scribble
            /\ GotView(shared, g).TotalSuccess = defaultHistorySize
            /\ store.targets[n].TotalSuccess = defaultHistorySize + 1
            /\ store.targets[n].History[1].RTT = 3

\* C15: the store's memory, whenever no writer holds the lock, is the result
\* of the calls that have returned, each applied in full; every snapshot
\* or get returns, for each target, exactly that value: all the effects of
\* every update that has returned, and nothing of an update in progress.
C15_Linearizable ==
    /\ [](~shared.writer => ViewOf(shared) = store.targets)
    /\ [][\A g \in (1..Len(shared'.got)) \ Given :
            /\ shared'.got[g].name \in Entries
            /\ GotView(shared', g) = store.targets[shared'.got[g].name]]_vars

\* a reader holds the value a returned update left, and a later update of
\* the same target is in progress
C15_Witness ==
    \E g \in Given :
        LET n == shared.got[g].name
        IN  /\ n \in Entries
            /\ GotView(shared, g) = store.targets[n]
            /\ store.targets[n].TotalFailure > 0
            /\ shared.writer /\ shared.upd.name = n /\ shared.upd.pc = "unlock"
(***************************************************************************)
(* Cancellation, Stop and the targets a reload leaves alone                *)
(***************************************************************************)
\* C18: once the cancellation signal of a probe loop has fired (its own
\* cancel function or that of its Run call), the loop never takes a
\* semaphore slot: no acquire step of a loop whose <-ctx.Done() is ready
C18_NoAcquireAfterCancel ==
    [][\A l \in LoopIds : LoopAcquire(l) => ~CtxDone(l)]_vars

\* Stop has returned: the cancel function of the running Run was called
Stopped == sched.cancel # 0 /\ sched.cancel \in ctxDone

\* C19: after Stop has returned, no loop starts a probe and no loop writes
\* a result to the store
C19_StopWaits ==
    [][Stopped => \A l \in LoopIds :
            /\ ~LoopAcquire(l)
            /\ \A r \in PingResults : ~LoopUpdateResult(l, r)]_vars

\* the names UpdateConfig has to leave alone: while its critical section is
\* still to come, those of the scheduler's targets and the new list; after
\* it, the ones recorded there
KeptNow ==
    IF reload.pc = "UpdateConfig"
    THEN KeptNames(sched, TargetMap(reload.newCfg.Targets))
    ELSE hist.kept

\* a step of UpdateConfig: its critical section, a cancel or a startTarget
UpdateConfigStep ==
    /\ reload.pc \in {"UpdateConfig", "cancel", "start"}
    /\ reload' # reload

\* the loop of name n is left alone by the step: same cancel function in
\* targetJobs, the loop itself unchanged, no new loop of that name
LeftAlone(n) ==
    /\ n \in DOMAIN sched.targetJobs =>
            /\ n \in DOMAIN sched'.targetJobs
            /\ sched'.targetJobs[n] = sched.targetJobs[n]
            /\ loops'[sched.targetJobs[n]] = loops[sched.targetJobs[n]]
    /\ \A l \in (Len(loops) + 1)..Len(loops') : loops'[l].name # n

\* the configuration of the reload has been installed by UpdateConfig
Installed == reload.newCfg # NoConfig /\ reload.pc # "UpdateConfig"

\* C20: UpdateConfig neither cancels nor respawns the loop of a target
\* whose name is in the old and the new targets with the same address,
\* whatever else changed; and every iteration that begins once the new
\* options are installed reads the new timing
C20_UnchangedTargetsKept ==
    /\ [][UpdateConfigStep => \A n \in KeptNow : LeftAlone(n)]_vars
    /\ [][\A l \in LoopIds : LoopTiming(l) /\ Installed =>
                loops'[l].timeout = reload.newCfg.Global.Timeout]_vars

\* a reload has changed group, timeout and max_concurrency of a target and
\* kept its address; the loop it had before still holds its handle, is not
\* cancelled and has begun an iteration with the new timeout
C20_Witness ==
    /\ reload.pc = "idle" /\ reload.newCfg # NoConfig
    /\ hist.timeout # reload.newCfg.Global.Timeout
    /\ hist.prevMax # maxConcurrency(reload.newCfg.Global.MaxConcurrency)
    /\ \E n \in DOMAIN sched.targetJobs \cap DOMAIN sched.targets
                    \cap DOMAIN store.targets :
            /\ sched.targets[n].Group = "g"
            /\ store.targets[n].Group = "g"
            /\ loops[sched.targetJobs[n]].ctx = reload.runCtx
            /\ ~loops[sched.targetJobs[n]].cancelled
            /\ loops[sched.targetJobs[n]].pc = "timer"
            /\ loops[sched.targetJobs[n]].timeout = reload.newCfg.Global.Timeout
            /\ Len(loops) = Cardinality(DOMAIN sched.targetJobs) + 1

(***************************************************************************)
(* Restarted targets, Run and the semaphore                                *)
(***************************************************************************)
\* UpdateConfig has returned
Returned ==
    hist.returned /\ reload.pc \notin {"UpdateConfig", "cancel", "start"}

\* C21: after UpdateConfig has returned, every probe started for the name
\* of a target whose address the call changed goes to the new address: no
\* loop starts a probe to an address other than the one the scheduler
\* holds for its name
C21_ProbesUseNewAddress ==
    [][\A l \in LoopIds :
          (LoopAcquire(l) /\ Returned /\ loops[l].name \in DOMAIN sched.targets)
          => loops[l].address = sched.targets[loops[l].name].Address]_vars

\* the calls of Run that returned "scheduler already running"
Refused == {r \in RunIds : runs[r].pc = "refused"}

\* C22: a call of Run while an earlier Run is active returns the error
\* "scheduler already running", starts no loop, leaves the root cancel
\* function and all of the scheduler as they are, and the earlier Run and
\* its loops go on unaffected
C22_SecondRunRefused ==
    /\ [][(Len(runs') > Len(runs) /\ sched.cancel # 0) =>
            /\ runs'[Len(runs')].pc = "refused"
            /\ \A r \in RunIds : runs'[r] = runs[r]
            /\ UNCHANGED <<store, sched, chans, loops, ctxDone>>]_vars
    /\ [][\A r \in Refused : r \in RunIds' /\ runs'[r] = runs[r]]_vars
    /\ [](\A l \in LoopIds : loops[l].ctx \notin Refused)

\* a second Run was refused while a probe of the first was in flight, and
\* the loop of the first Run has written a result since
C22_Witness ==
    /\ Refused = {2}
    /\ runs[1].pc = "wait"
    /\ sched.cancel = 1
    /\ \E l \in LoopIds :
            /\ loops[l].ctx = 1
            /\ store.targets[loops[l].name].TotalSuccess = 1
            /\ loops[l].pc = "ping"

\* the loops started under the context of the Run call r
LoopsOf(r) == {l \in LoopIds : loops[l].ctx = r}

\* C23: an accepted Run returns only after its cancellation signal has
\* fired and every loop it supervises has exited; a loop ends only by
\* cancellation, whatever its probes return
C23_RunReturnsAfterLoops ==
    /\ [][\A r \in RunIds : RunReturn(r) =>
                /\ r \in ctxDone
                /\ \A l \in LoopsOf(r) : loops[l].pc = "done"]_vars
    /\ [][\A l \in LoopIds :
                (loops[l].pc # "done" /\ loops'[l].pc = "done") => CtxDone(l)]_vars

(***************************************************************************)
(* Reload requests and the metrics server's bind error                     *)
(***************************************************************************)
\* the requests made so far
Requested == entry.sent["signal"] + entry.sent["key"]

\* C24: a reload request never blocks the requester; it becomes the pending
\* request when none is pending and is discarded when one is, so at most
\* one request is pending however many signals and key presses arrive
C24_RequestsCoalesced ==
    /\ [](reloadCh.len <= 1)
    /\ [](\A src \in Sources :
                entry.sent[src] < MaxRequests => ENABLED RequestReload(src))
    /\ [][\A src \in Sources : RequestReload(src) =>
                /\ reloadCh'.len = 1
                /\ reloadCh.len = 1 => reloadCh' = reloadCh]_vars

\* four requests were made, one was served, one is pending: two were
\* discarded
C24_Witness ==
    /\ Requested = 2 * MaxRequests
    /\ entry.served = 1
    /\ reloadCh.len = 1

\* C25: when the listen address cannot be bound Serve returns the bind
\* error, not the cancellation reason, and main then cancels the root
\* context; when it is bound Serve returns only after cancellation, with
\* the cancellation reason
C25_BindErrorSurfaces ==
    /\ [][(entry.serve = "select" /\ entry'.serve = "returned") =>
            IF entry.errCh = "bind"
            THEN entry'.err = "bind"
            ELSE entry.ctx /\ entry'.err = "canceled"]_vars
    /\ [][(entry.metrics = "serve" /\ entry'.metrics = "done" /\ entry.err = "bind")
            => entry'.ctx]_vars

(***************************************************************************)
(* The semaphore across UpdateConfig                                       *)
(***************************************************************************)
\* C26: an UpdateConfig whose max_concurrency equals the current one
\* leaves the semaphore instance and the slots held in it as they are
C26_SemaphoreKept ==
    [][(ReloadUpdateConfig
            /\ reload.newCfg.Global.MaxConcurrency = sched.cfg.MaxConcurrency)
        => /\ sched'.semaphore = sched.semaphore
           /\ chans' = chans]_vars

\* the probes in flight that acquired from the semaphore of index i
HoldersOf(i) == {l \in LoopIds : loops[l].pc = "ping" /\ loops[l].sem = i}

\* C27: a slot is released once, into the semaphore it was acquired from,
\* when the probe has returned and before its result is written, whatever
\* the probe returned and whichever semaphore is current; the slots taken
\* of each semaphore are as many as the probes in flight that acquired
\* from it, and a loop that is not probing holds none
C27_SlotsReleased ==
    /\ [](\A i \in 1..Len(chans) : chans[i].len = Cardinality(HoldersOf(i)))
    /\ [](\A l \in LoopIds : loops[l].pc \in {"update", "timing", "done"}
                                => loops[l].sem = 0)
    /\ [][\A l \in LoopIds : LoopPingReturns(l) =>
            /\ chans'[loops[l].sem].len = chans[loops[l].sem].len - 1
            /\ \A i \in 1..Len(chans) : i # loops[l].sem => chans'[i] = chans[i]
            /\ loops'[l].pc = "update"
            /\ store' = store]_vars

\* a probe holds a slot of a semaphore that UpdateConfig has replaced
\* while another probe holds a slot of the new one, and a third loop has
\* given its slot back and is about to write
C27_Witness ==
    /\ sched.semaphore # 1
    /\ HoldersOf(1) # {}
    /\ HoldersOf(sched.semaphore) # {}
    /\ \E l \in LoopIds : loops[l].pc = "update"

(***************************************************************************)
(* Removed targets after UpdateConfig                                      *)
(***************************************************************************)
\* C28: after UpdateConfig has returned, the loop of a removed target
\* writes at most the result of the probe that was in flight then: it
\* writes no result of a probe started after the return
C28_OneLastUpdate ==
    [][\A l \in LoopIds, r \in PingResults :
            LoopUpdateResult(l, r) => l \notin hist.late]_vars

(***************************************************************************)
(* The classification timeout                                              *)
(***************************************************************************)
\* C29: UpdateTimeout(T) changes the store's timeout and nothing else (no
\* status, counter, time or history); nothing else changes the timeout, and
\* the update of a success made after it is classified with T
C29_TimeoutOnly ==
    /\ [][\A t \in Timeouts : StoreUpdateTimeout(t) =>
                /\ store'.timeout = t
                /\ store'.targets = store.targets
                /\ store'.historySize = store.historySize
                /\ store'.downThreshold = store.downThreshold]_vars
    /\ [][store'.timeout # store.timeout =>
                \E t \in Timeouts : StoreUpdateTimeout(t)]_vars
    /\ [][\A m \in Names, r \in Results :
                (StoreUpdateResult(m, r) /\ r.Success) =>
                    store'.targets[m].Status =
                        IF TruncatedOK(store'.targets[m].History, store.timeout)
                        THEN StatusOK ELSE StatusWarn]_vars

\* one target is still OK from a success classified under the timeout 12,
\* which the timeout 10 would have made WARN; another was classified WARN
\* under the timeout 10 set since, which 12 would have made OK
C29_Witness ==
    /\ store.timeout = 10
    /\ \E n \in Entries, m \in Entries :
            /\ lastProbe[n] = "ok" /\ lastProbe[m] = "ok"
            /\ store.targets[n].Status = StatusOK
            /\ ~TruncatedOK(store.targets[n].History, 10)
            /\ store.targets[m].Status = StatusWarn
            /\ TruncatedOK(store.targets[m].History, 12)

(***************************************************************************)
(* Every target of a running scheduler is probed                           *)
(***************************************************************************)
\* the loops of name n that have not returned
LiveLoops(n) == {l \in LoopIds : loops[l].name = n /\ loops[l].pc # "done"}

\* C30: while the scheduler runs, every configured target is eventually
\* probed and leaves UNKNOWN. Where no reload is served only Run starts
\* loops, so once Run has started its targets and while its context is not
\* cancelled, a target that is still UNKNOWN has a loop that has not
\* returned
C30_UnknownTargetsHaveLoops ==
    \A r \in RunIds :
        (runs[r].pc = "wait" /\ r \notin ctxDone) =>
            \A n \in DOMAIN sched.targets \cap DOMAIN store.targets :
                store.targets[n].Status = StatusUnknown => LiveLoops(n) # {}

(***************************************************************************)
(* Shutdown                                                                *)
(***************************************************************************)
\* C31: after the root cancellation has fired every loop exits, Run
\* returns and no probe is started any more: no loop whose Run context is
\* cancelled takes a slot, and no loop runs on once its Run has returned
C31_NoProbeAfterRootCancel ==
    /\ [][\A l \in LoopIds : LoopAcquire(l) => loops[l].ctx \notin ctxDone]_vars
    /\ [](\A l \in LoopIds :
            runs[loops[l].ctx].pc = "returned" => loops[l].pc = "done")

\* C32: when the user quits the terminal UI the root cancellation fires,
\* as for SIGINT and SIGTERM: ui.Run has returned only with the root
\* context cancelled
C32_QuitCancelsRoot == entry.ui = "done" => entry.ctx

(***************************************************************************)
(* The ICMP engine (internal/ping, ICMPPinger)                             *)
(***************************************************************************)
\* the calls of Ping made on one engine
MaxCalls == 2

\* a value of the 32-bit counter, and of the int made from it, as two
\* 16-bit halves: it stands for hi * 65536 + lo
Word(hi, lo) == [hi |-> hi, lo |-> lo]

\* uint16(n) of such a value: the low half
Uint16(w) == w.lo

\* atomic.AddUint32(&p.seq, d): the counter is 32 bits wide, the carry out
\* of the high half is lost
AddUint32(w, d) ==
    Word((w.hi + (w.lo + d) \div 65536) % 65536, (w.lo + d) % 65536)

\* os.Getpid() & 0xffff of this process and of another one that pings
Ids == {1, 2}

\* the counter when the calls watched here begin: a new engine, an engine
\* that has made 65534 or 65535 calls, an engine about to wrap the counter
Counters == {Word(0, 0), Word(0, 65534), Word(0, 65535), Word(65535, 65535)}

\* the body a call builds: identifier and sequence are Go ints
Echo(id, seq) == [ID |-> id, Seq |-> seq]

\* (*icmp.Echo).Marshal: both fields are written as 16-bit values
Marshal(body) == [ID |-> body.ID % 65536, Seq |-> Uint16(body.Seq)]

\* icmp.ParseMessage: the 16-bit fields of the packet, returned as ints
ParseMessage(packet) == Echo(packet.ID, Word(0, packet.Seq))

NoPacket == [ID |-> -1, Seq |-> -1]

\* the reply test of the read loop accepts on identifier alone
Matches_IdOnly(id, seq, body) == body.ID = id

\* the reply test of the read loop: `continue` unless both fields agree
Matches(id, seq, body) == ~(body.ID # id \/ body.Seq # seq)

\* a call of Ping: seq is the value it compares replies with, sent the echo
\* request it put on the wire, inbox the packets queued on its socket
NewCall(seq, sent, pc, result) ==
    [ pc |-> pc, seq |-> seq, sent |-> sent, inbox |-> {}, ctx |-> FALSE,
      discarded |-> {}, matched |-> NoPacket, result |-> result ]

NewICMPPinger(id, counter) == [id |-> id, seq |-> counter, calls |-> << >>]

CallIds == DOMAIN icmp.calls

\* the calls whose socket is open
Open == {c \in CallIds : icmp.calls[c].pc = "read"}

\* a packet reaches the host: a raw ICMP socket receives every ICMP packet
\* that arrives while it is open
Deliver(packet) ==
    [c \in CallIds |->
        IF c \in Open
        THEN [icmp.calls[c] EXCEPT !.inbox = @ \cup {packet}]
        ELSE icmp.calls[c]]

IcmpUnchanged == UNCHANGED <<storeVars, schedVars, shared, fallback, exposition, mainVars>>

\* Ping up to its read loop.  "early": the context is done, the address
\* does not resolve or the socket cannot be opened, and the call returns
\* before it takes a sequence number.  "write": WriteTo fails.  "sent": the
\* echo request is on the wire.
IcmpPing(outcome) ==
    /\ Len(icmp.calls) < MaxCalls
    /\ IF outcome = "early"
       THEN icmp' = [icmp EXCEPT
                !.calls = Append(@, NewCall(Word(0, 0), NoPacket, "done", "error"))]
       ELSE LET counter == AddUint32(icmp.seq, 1)
                seq == counter
                payload == Marshal(Echo(icmp.id, seq))
            IN  icmp' = [icmp EXCEPT
                    !.seq = counter,
                    !.calls = Append(@,
                        IF outcome = "write"
                        THEN NewCall(seq, NoPacket, "done", "error")
                        ELSE NewCall(seq, payload, "read", "none"))]
    /\ IcmpUnchanged

\* the probed host answers an echo request of an open call: the reply
\* carries the identifier and the sequence of the request
IcmpEcho(c) ==
    /\ c \in Open
    /\ icmp.calls[c].sent \notin icmp.calls[c].inbox
    /\ icmp.calls[c].sent \notin icmp.calls[c].discarded
    /\ icmp' = [icmp EXCEPT !.calls = Deliver(icmp.calls[c].sent)]
    /\ IcmpUnchanged

\* an echo reply to another process arrives: its identifier is not the
\* engine's, its sequence may be that of an open call
IcmpForeign(c, id) ==
    /\ c \in Open
    /\ id # icmp.id
    /\ LET packet == [ID |-> id, Seq |-> icmp.calls[c].sent.Seq]
       IN  /\ \A d \in Open : packet \notin icmp.calls[d].inbox
           /\ icmp' = [icmp EXCEPT !.calls = Deliver(packet)]
    /\ IcmpUnchanged

\* the caller cancels the context of a call
IcmpCancel(c) ==
    /\ c \in Open
    /\ ~icmp.calls[c].ctx
    /\ icmp' = [icmp EXCEPT !.calls[c].ctx = TRUE]
    /\ IcmpUnchanged

\* one turn of the read loop that reads a packet
IcmpRead(c, packet) ==
    /\ c \in Open
    /\ packet \in icmp.calls[c].inbox
    /\ LET body == ParseMessage(packet)
       IN  IF Matches(icmp.id, icmp.calls[c].seq, body)
           THEN icmp' = [icmp EXCEPT !.calls[c] =
                    [@ EXCEPT !.pc = "done", !.result = "success",
                              !.matched = packet, !.inbox = {}]]
           ELSE icmp' = [icmp EXCEPT !.calls[c] =
                    [@ EXCEPT !.inbox = @ \ {packet},
                              !.discarded = @ \cup {packet}]]
    /\ IcmpUnchanged

\* ReadFrom returns the deadline's timeout
IcmpDeadline(c) ==
    /\ c \in Open
    /\ icmp' = [icmp EXCEPT !.calls[c] =
            [@ EXCEPT !.pc = "done", !.result = "timeout", !.inbox = {}]]
    /\ IcmpUnchanged

\* the read loop finds the context done
IcmpCancelled(c) ==
    /\ c \in Open
    /\ icmp.calls[c].ctx
    /\ icmp' = [icmp EXCEPT !.calls[c] =
            [@ EXCEPT !.pc = "done", !.result = "cancelled", !.inbox = {}]]
    /\ IcmpUnchanged

InitIcmp ==
    /\ \E id \in Ids, counter \in Counters : icmp = NewICMPPinger(id, counter)
    /\ shared = << >> /\ fallback = << >> /\ exposition = << >>
    /\ reloadCh = << >> /\ entry = << >>
    /\ store = NewStore(<< >>, 0)
    /\ now = 0
    /\ lastProbe = << >>
    /\ sched = << >> /\ chans = << >> /\ loops = << >> /\ ctxDone = {}
    /\ runs = << >> /\ reload = << >> /\ hist = << >>

NextIcmp ==
    \/ \E outcome \in {"early", "write", "sent"} : IcmpPing(outcome)
    \/ \E c \in CallIds : IcmpEcho(c)
    \/ \E c \in CallIds, id \in Ids : IcmpForeign(c, id)
    \/ \E c \in CallIds : IcmpCancel(c)
    \/ \E c \in CallIds : \E packet \in icmp.calls[c].inbox : IcmpRead(c, packet)
    \/ \E c \in CallIds : IcmpDeadline(c)
    \/ \E c \in CallIds : IcmpCancelled(c)

SpecIcmp == InitIcmp /\ [][NextIcmp]_vars

\* the calls that put an echo request on the wire
Sent == {c \in CallIds : icmp.calls[c].sent # NoPacket}

\* C33: for every call that sends a request, also once the counter has
\* passed 65535, the sequence compared with the replies is the sequence on
\* the wire, and a call that reads the reply to its own request succeeds
C33_SequenceMatchesWire ==
    \A c \in Sent :
        /\ icmp.calls[c].seq = Word(0, icmp.calls[c].sent.Seq)
        /\ icmp.calls[c].sent \notin icmp.calls[c].discarded

C35_OldestFirst ==
    /\ [](\A n \in Entries :
            \A i \in 1..(Len(store.targets[n].History) - 1) :
                store.targets[n].History[i].Time
                    < store.targets[n].History[i + 1].Time)
    /\ [][\A n \in Names, r \in Results :
            StoreUpdateResult(n, r) /\ r.Success =>
                LET h == HistoryOf(store, n)
                    h2 == HistoryOf(store', n)
                    point == [Time |-> now', RTT |-> r.RTT]
                IN  IF Len(h) = defaultHistorySize
                    THEN /\ Len(h2) = defaultHistorySize
                         /\ \A i \in 1..(defaultHistorySize - 1) : h2[i] = h[i + 1]
                         /\ h2[defaultHistorySize] = point
                    ELSE h2 = Append(h, point)]_vars

\* a full history has lost its two oldest samples to the two newest, and a
\* history below the cap has grown
C35_Witness ==
    /\ \E n \in Entries :
          /\ Len(store.targets[n].History) = defaultHistorySize
          /\ store.targets[n].TotalSuccess = defaultHistorySize + 2
          /\ store.targets[n].History[1].Time
                = thresholdDataPointCount - defaultHistorySize + 3
          /\ store.targets[n].History[defaultHistorySize].Time = now
    /\ \E n \in Entries :
          /\ store.targets[n].TotalSuccess = 1
          /\ Len(store.targets[n].History) = 1

\* total_success + total_failure of the entry of a name; 0 without an entry
UpdatesOf(s, n) ==
    IF n \in DOMAIN s.targets
    THEN s.targets[n].TotalSuccess + s.targets[n].TotalFailure
    ELSE 0

Min(a, b) == IF a <= b THEN a ELSE b

\* C36: for every entry total_success + total_failure is the number of
\* updates applied to it since it was created (an entry is created with 0,
\* each update of its name adds exactly 1 and nothing else changes the sum),
\* consecutive_ok <= total_success, consecutive_ng <= total_failure, the
\* history holds min(H, total_success) samples, and the last sample of a
\* non-empty history carries last_rtt.
C36_CountersAgree ==
    /\ [](\A n \in Entries :
            LET e == store.targets[n]
            IN  /\ e.ConsecutiveOK <= e.TotalSuccess
                /\ e.ConsecutiveNG <= e.TotalFailure
                /\ Len(e.History) = Min(defaultHistorySize, e.TotalSuccess)
                /\ e.History # << >> => e.History[Len(e.History)].RTT = e.LastRTT)
    /\ [][\A n \in DOMAIN store'.targets :
            UpdatesOf(store', n) =
                UpdatesOf(store, n)
                    + (IF \E r \in Results : StoreUpdateResult(n, r) THEN 1 ELSE 0)]_vars

\* an entry made by an update has since taken a success and two failures;
\* another has a full history and a failure last
C36_Witness ==
    /\ \E n \in Entries :
          /\ store.targets[n].Address = ""
          /\ store.targets[n].TotalSuccess = 1
          /\ store.targets[n].TotalFailure = 2
    /\ \E n \in Entries :
          /\ store.targets[n].TotalSuccess >= defaultHistorySize
          /\ store.targets[n].ConsecutiveNG > 0

(***************************************************************************)
(* The loops and the target table                                          *)
(***************************************************************************)
\* the loops of name n that have not returned and are not cancelled
Probing(n) == {l \in LiveLoops(n) : ~CtxDone(l)}

\* a Run call has started its loops and waits, its context is not
\* cancelled, and no UpdateConfig is under way
Quiescent ==
    /\ \E r \in RunIds : runs[r].pc = "wait" /\ r \notin ctxDone
    /\ reload.pc \notin {"UpdateConfig", "cancel", "start"}

\* C37: while the scheduler runs and neither Run's spawning nor an
\* UpdateConfig is under way, the names with a live loop are exactly the
\* names of the target table, and no name has two live loops
C37_LoopsMatchTargets ==
    Quiescent =>
        /\ {n \in Names : Probing(n) # {}} = DOMAIN sched.targets
        /\ \A n \in Names : Cardinality(Probing(n)) <= 1

\* no reload is under way, every cancelled loop has returned, and the loops
\* that were never cancelled are those of names of the target table
AtRest ==
    /\ reload.pc = "idle"
    /\ \A l \in LoopIds : CtxDone(l) => loops[l].pc = "done"
    /\ \A l \in LoopIds : ~loops[l].cancelled => loops[l].name \in DOMAIN sched.targets

\* C38: when no reload is under way and every cancelled loop has returned,
\* every entry of the store has a name of the scheduler's target table and
\* carries the address and the group of that record
C38_StoreMatchesTargets ==
    AtRest =>
        \A n \in DOMAIN store.targets :
            /\ n \in DOMAIN sched.targets
            /\ store.targets[n].Address = sched.targets[n].Address
            /\ store.targets[n].Group = sched.targets[n].Group

(***************************************************************************)
(* Run after Run                                                           *)
(***************************************************************************)
\* C39: once a Run call has returned the scheduler is not running and holds
\* no loop handle; the next Run call is accepted, and when it has started
\* its loops every configured target has a live loop under its context
C39_RunAgain ==
    /\ []((sched.cancel = 0 /\ \E r \in RunIds : runs[r].pc = "returned") =>
            /\ sched.runCtx = 0
            /\ DOMAIN sched.targetJobs = {})
    /\ [][(Len(runs') > Len(runs) /\ sched.cancel = 0) =>
            runs'[Len(runs')].pc # "refused"]_vars
    /\ [](\A r \in RunIds :
            (runs[r].pc = "wait" /\ r \notin ctxDone) =>
                \A n \in DOMAIN sched.targets :
                    \E l \in LiveLoops(n) : loops[l].ctx = r)

====
